---- MODULE Spec2Model ----
(***************************************************************************)
(* Model of faster_sam/cloudformation.py: the CloudFormation template      *)
(* facade (CloudformationTemplate), the intrinsic function evaluator       *)
(* (IntrinsicFunctions), the resource classes and the constructor of the   *)
(* YAML loader.  Spec follows the construction of a template and the       *)
(* evaluation of mappings, SpecResources the construction and the reads of *)
(* the resource properties, SpecLoader one call of multi_constructor.      *)
(*                                                                         *)
(* Python values are tagged records:                                       *)
(*   None                [k |-> "none"]                                    *)
(*   str                 [k |-> "str",  s  |-> sequence of tokens]         *)
(*   int                 [k |-> "int",  n  |-> integer]                    *)
(*   list                [k |-> "list", l  |-> sequence of values]         *)
(*   dict (ordered)      [k |-> "dict", kv |-> sequence of <<key, value>>] *)
(*   str(x) of a non-string x   [k |-> "repr", of |-> x]                   *)
(*   a raised exception  [k |-> "raise", e |-> exception class name]       *)
(* A string is a sequence of tokens (TLA+ strings); a dict key is the      *)
(* concatenation of the tokens of the key string.  A ${name} placeholder   *)
(* of Fn::Sub is the single token "${name}".                               *)
(***************************************************************************)
EXTENDS Integers, Sequences, FiniteSets, TLC

VARIABLES
    pc,             \* where the construction of CloudformationTemplate stands
    template_path,  \* the template_path argument of __init__
    parameters,     \* the parameters argument of __init__
    template,       \* self.template
    environment,    \* self._environment, NotSet until the property is read
    error,          \* the exception __init__ or an accessor raised, or ""
    environ,        \* os.environ
    node,           \* the mapping a caller passes to IntrinsicFunctions.eval
    returned,       \* what the last eval of node returned or raised
    prevReturned,   \* what the eval of node before that returned or raised
    evalCount,      \* number of evals of node since the caller built it
    last,           \* node and template as they were before the last eval
    _functions,     \* self._functions: the ids of the Function objects, or NotSet
    _apis,          \* self._apis, likewise
    _queues,        \* self._queues, likewise
    _buckets,       \* self._buckets, likewise
    _handler,       \* the _handler of every Function object, NotSet until read
    _events,        \* the _events of every Function object, NotSet until read
    got,            \* what the last read of a property returned or raised
    tag_suffix,     \* the tag_suffix argument of multi_constructor
    yaml_node,      \* the node argument of multi_constructor
    constructed,    \* what multi_constructor returned or raised
    first,          \* the environment of an earlier load of the same file
    clock,          \* datetime.now(), in seconds
    _lambda_client, \* LambdaAuthorizerMiddleware._lambda_client and its fields
    response,       \* a middleware's dispatch: the request and what became of it
    redis,          \* a call of RedisCache.get: the connection and the outcome
    credentials     \* LambdaAuthorizerMiddleware.credentials

(* the caches of the resource properties and of the Function objects *)
objectVars == <<_handler, _events>>

(* the call of the loader's constructor *)
loaderVars == <<tag_suffix, yaml_node, constructed>>

(* the middlewares and the cache *)
serviceVars == <<clock, _lambda_client, response, redis, credentials>>

vars == <<pc, template_path, parameters, template, environment, error, environ,
          node, returned, prevReturned, evalCount, last, _functions, _apis,
          _queues, _buckets, objectVars, got, loaderVars, first, serviceVars>>

-----------------------------------------------------------------------------
(* Python values *)

None == [k |-> "none"]
Str(s) == [k |-> "str", s |-> s]
T(tok) == [k |-> "str", s |-> <<tok>>]
Num(n) == [k |-> "int", n |-> n]
Lst(l) == [k |-> "list", l |-> l]
Dct(kv) == [k |-> "dict", kv |-> kv]
Fn(name, arg) == [k |-> "dict", kv |-> << <<name, arg>> >>]
Repr(x) == [k |-> "repr", of |-> x]
Raise(e) == [k |-> "raise", e |-> e]

IsNone(v) == v.k = "none"
IsStr(v) == v.k = "str"
IsDict(v) == v.k = "dict"
IsList(v) == v.k = "list"
IsRaise(v) == v.k = "raise"

RECURSIVE Flat(_)
Flat(s) == IF s = <<>> THEN "" ELSE s[1] \o Flat(Tail(s))

RECURSIVE Concat(_)
Concat(ss) == IF ss = <<>> THEN <<>> ELSE ss[1] \o Concat(Tail(ss))

(* dict operations: keys are TLA+ strings, insertion order is kept *)
Has(d, key) == \E i \in DOMAIN d.kv : d.kv[i][1] = key
Pos(d, key) == CHOOSE i \in DOMAIN d.kv : d.kv[i][1] = key
Get(d, key) == d.kv[Pos(d, key)][2]
Put(d, key, v) ==
    IF Has(d, key)
    THEN Dct([d.kv EXCEPT ![Pos(d, key)] = <<key, v>>])
    ELSE Dct(Append(d.kv, <<key, v>>))
GetOr(d, key, dflt) == IF IsDict(d) /\ Has(d, key) THEN Get(d, key) ELSE dflt
Keys(d) == [i \in DOMAIN d.kv |-> d.kv[i][1]]
EmptyDict == Dct(<<>>)

(* x in d, for a Python value x: only a string can be one of the keys *)
Hashable(x) == x.k \notin {"list", "dict"}
In(x, d) == IsStr(x) /\ Has(d, Flat(x.s))
At(d, x) == Get(d, Flat(x.s))

RECURSIVE GetPath(_, _)
GetPath(v, path) ==
    IF path = <<>> THEN v ELSE GetPath(Get(v, path[1]), Tail(path))

RECURSIVE SetPath(_, _, _)
SetPath(v, path, x) ==
    IF path = <<>> THEN x
    ELSE Put(v, path[1], SetPath(Get(v, path[1]), Tail(path), x))

(* str(x): a string is itself, an int its decimal text, None the text
   "None", and a list or dict the text of its repr *)
PyStr(x) ==
    CASE x.k \in {"str", "repr"} -> x
      [] x.k = "int" -> T(ToString(x.n))
      [] x.k = "none" -> T("None")
      [] OTHER -> Repr(x)

-----------------------------------------------------------------------------
(* Strings of the evaluator *)

(* the names that occur between ${ and } in the modelled strings *)
PlaceholderNames == {"AWS::Region", "AWS::AccountId", "STAGE", "NAME", "OTHER"}

Placeholder(name) == "${" \o name \o "}"

IsPlaceholder(tok) == \E n \in PlaceholderNames : tok = Placeholder(n)
NameOf(tok) == CHOOSE n \in PlaceholderNames : tok = Placeholder(n)

(* re.findall(r"\${(.*?)}", string): the placeholder names, in order *)
RECURSIVE FindAll(_)
FindAll(s) ==
    IF s = <<>> THEN <<>>
    ELSE IF IsPlaceholder(s[1]) THEN <<NameOf(s[1])>> \o FindAll(Tail(s))
    ELSE FindAll(Tail(s))

(* string.replace(old, new) for a one-token old *)
RECURSIVE Replace(_, _, _)
Replace(s, old, new) ==
    IF s = <<>> THEN <<>>
    ELSE (IF s[1] = old THEN new ELSE <<s[1]>>) \o Replace(Tail(s), old, new)

(* name in string, the substring test: the name is a token of the string or
   is the name of one of its placeholders *)
Contains(s, name) ==
    \E i \in DOMAIN s : s[i] = name \/ s[i] = Placeholder(name)

(* the tokens of str(x) when it is spliced into another string *)
Text(x) == IF IsStr(PyStr(x)) THEN PyStr(x).s ELSE <<"<repr>">>

(* source.split(delimiter) for a one-token delimiter *)
RECURSIVE SplitSeq(_, _, _)
SplitSeq(s, d, cur) ==
    IF s = <<>> THEN <<Str(cur)>>
    ELSE IF s[1] = d THEN <<Str(cur)>> \o SplitSeq(Tail(s), d, <<>>)
    ELSE SplitSeq(Tail(s), d, Append(cur, s[1]))

pseudo_parameters ==
    {"AWS::AccountId", "AWS::NotificationARNs", "AWS::NoValue", "AWS::Partition",
     "AWS::Region", "AWS::StackId", "AWS::StackName", "AWS::URLSuffix"}

(* match.replace("::", "_") on the pseudo parameter names *)
ReplaceColons(name) ==
    CASE name = "AWS::AccountId" -> "AWS_AccountId"
      [] name = "AWS::NotificationARNs" -> "AWS_NotificationARNs"
      [] name = "AWS::NoValue" -> "AWS_NoValue"
      [] name = "AWS::Partition" -> "AWS_Partition"
      [] name = "AWS::Region" -> "AWS_Region"
      [] name = "AWS::StackId" -> "AWS_StackId"
      [] name = "AWS::StackName" -> "AWS_StackName"
      [] name = "AWS::URLSuffix" -> "AWS_URLSuffix"
      [] OTHER -> name

(* replace_placeholders reading every placeholder, a pseudo parameter too,
   from the variable of its own name: C5 tells the code from this variant *)
RECURSIVE replace_placeholders_same_name(_, _, _)
replace_placeholders_same_name(string, matches, env) ==
    IF matches = <<>> THEN Str(string)
    ELSE IF matches[1] \in DOMAIN env
    THEN replace_placeholders_same_name(
             Replace(string, Placeholder(matches[1]), <<env[matches[1]]>>),
             Tail(matches), env)
    ELSE None

(* os.environ is a function from variable names to one-token strings *)
RECURSIVE replace_placeholders(_, _, _)
replace_placeholders(string, matches, env) ==
    IF matches = <<>> THEN Str(string)
    ELSE LET match == matches[1]
             var == IF match \in pseudo_parameters THEN ReplaceColons(match) ELSE match
         IN IF var \in DOMAIN env
            THEN replace_placeholders(
                     Replace(string, Placeholder(match), <<env[var]>>),
                     Tail(matches), env)
            ELSE None

-----------------------------------------------------------------------------
(* IntrinsicFunctions.  Every function returns [out, val, tpl]: out is the
   returned value, None or the raised exception, val is the argument object
   as the call leaves it and tpl the template as the call leaves it (Python
   lists and dicts are shared objects that the functions assign into). *)

Ret(out, val, tpl) == [out |-> out, val |-> val, tpl |-> tpl]

(* a, b = value: "" when value unpacks into n names, else the exception *)
Unpack(value, n) ==
    CASE value.k = "list" -> IF Len(value.l) = n THEN "" ELSE "ValueError"
      [] value.k \in {"none", "int"} -> "TypeError"
      [] OTHER -> "ValueError"

RECURSIVE Eval(_, _, _)
RECURSIVE JoinLoop(_, _, _, _)
RECURSIVE SelectLoop(_, _, _, _)
RECURSIVE SubLoop(_, _, _, _, _, _)

base64(value, tpl, env) ==
    IF IsStr(value)
    THEN Ret(T("base64:" \o Flat(value.s)), value, tpl)
    ELSE Ret(Raise("AttributeError"), value, tpl)

ref(value, tpl, env) ==
    LET params == GetOr(tpl, "Parameters", EmptyDict)
    IN IF ~Hashable(value) THEN Ret(Raise("TypeError"), value, tpl)
       ELSE IF In(value, params)
       THEN LET resource == At(params, value)
            IN IF IsDict(resource)
               THEN Ret(GetOr(resource, "Default", None), value, tpl)
               ELSE Ret(Raise("AttributeError"), value, tpl)
       ELSE Ret(None, value, tpl)

find_in_map(value, tpl, env) ==
    IF Unpack(value, 3) # "" THEN Ret(Raise(Unpack(value, 3)), value, tpl)
    ELSE
    LET map_name == value.l[1]
        second_level_key == value.l[3]
        mappings == GetOr(tpl, "Mappings", EmptyDict)
        Keyed(r) ==
            LET value1 == Lst([value.l EXCEPT ![2] = r.node])
                top_level_key == r.out
                map == At(mappings, map_name)
            IN IF IsRaise(r.out) THEN Ret(r.out, value1, r.tpl)
               ELSE IF IsDict(value.l[2]) /\ IsNone(top_level_key)
               THEN Ret(None, value1, r.tpl)
               ELSE IF ~Hashable(top_level_key) THEN Ret(Raise("TypeError"), value1, r.tpl)
               ELSE IF ~In(top_level_key, map) THEN Ret(None, value1, r.tpl)
               ELSE IF ~IsDict(At(map, top_level_key))
               THEN Ret(Raise("AttributeError"), value1, r.tpl)
               ELSE IF ~Hashable(second_level_key)
               THEN Ret(Raise("TypeError"), value1, r.tpl)
               ELSE IF In(second_level_key, At(map, top_level_key))
               THEN Ret(At(At(map, top_level_key), second_level_key), value1, r.tpl)
               ELSE Ret(None, value1, r.tpl)
    IN IF ~Hashable(map_name) THEN Ret(Raise("TypeError"), value, tpl)
       ELSE IF ~In(map_name, mappings) THEN Ret(None, value, tpl)
       ELSE Keyed(IF IsDict(value.l[2]) THEN Eval(value.l[2], tpl, env)
                  ELSE [out |-> value.l[2], node |-> value.l[2], tpl |-> tpl])

get_att(value, tpl, env) ==
    LET parts == IF IsStr(value) THEN Lst(SplitSeq(value.s, ".", <<>>)) ELSE value
    IN
    IF Unpack(parts, 2) # "" THEN Ret(Raise(Unpack(parts, 2)), value, tpl)
    ELSE IF ~Has(tpl, "Resources") THEN Ret(Raise("KeyError"), value, tpl)
    ELSE
    LET logical_name == parts.l[1]
        resources == Get(tpl, "Resources")
        Named(r) ==
            LET value1 == IF IsStr(value) THEN value
                          ELSE Lst([value.l EXCEPT ![2] = r.node])
                attribute_name == r.out
                resource == At(resources, logical_name)
                Valued(attribute_value, path, r2) ==
                    IF IsDict(attribute_value)
                    THEN Ret(r2.out, value1, SetPath(r2.tpl, path, r2.node))
                    ELSE Ret(attribute_value, value1, r.tpl)
            IN IF IsRaise(r.out) THEN Ret(r.out, value1, r.tpl)
               ELSE IF IsDict(parts.l[2]) /\ IsNone(attribute_name)
               THEN Ret(None, value1, r.tpl)
               ELSE IF ~IsDict(resource) THEN Ret(Raise("TypeError"), value1, r.tpl)
               ELSE IF ~Has(resource, "Properties")
               THEN Ret(Raise("KeyError"), value1, r.tpl)
               ELSE IF ~IsDict(Get(resource, "Properties"))
               THEN Ret(Raise("TypeError"), value1, r.tpl)
               ELSE IF ~Hashable(attribute_name) THEN Ret(Raise("TypeError"), value1, r.tpl)
               ELSE IF ~In(attribute_name, Get(resource, "Properties"))
               THEN Ret(None, value1, r.tpl)
               ELSE Valued(At(Get(resource, "Properties"), attribute_name),
                           <<"Resources", Flat(logical_name.s), "Properties",
                             Flat(attribute_name.s)>>,
                           Eval(At(Get(resource, "Properties"), attribute_name),
                                r.tpl, env))
    IN IF ~Hashable(logical_name) THEN Ret(Raise("TypeError"), value, tpl)
       ELSE IF ~In(logical_name, resources) THEN Ret(None, value, tpl)
       ELSE Named(IF IsDict(parts.l[2]) THEN Eval(parts.l[2], tpl, env)
                  ELSE [out |-> parts.l[2], node |-> parts.l[2], tpl |-> tpl])

(* the loop of join: [out, l, tpl], out = the exception or None that ends
   the loop early, or "done" *)
JoinLoop(values, index, tpl, env) ==
    IF index > Len(values) THEN [out |-> [k |-> "done"], l |-> values, tpl |-> tpl]
    ELSE LET Element(r) ==
                 IF IsRaise(r.out) \/ IsNone(r.out)
                 THEN [out |-> r.out, l |-> [values EXCEPT ![index] = r.node],
                       tpl |-> r.tpl]
                 ELSE JoinLoop([values EXCEPT ![index] = r.out], index + 1, r.tpl, env)
         IN Element(IF IsDict(values[index]) THEN Eval(values[index], tpl, env)
                    ELSE [out |-> values[index], node |-> values[index], tpl |-> tpl])

(* delimiter.join(values) *)
PyJoin(delimiter, values) ==
    IF ~IsStr(delimiter) THEN Raise("AttributeError")
    ELSE IF \E i \in DOMAIN values : ~IsStr(values[i]) THEN Raise("TypeError")
    ELSE Str(Concat([i \in DOMAIN values |->
                        IF i = 1 THEN values[i].s ELSE delimiter.s \o values[i].s]))

join(value, tpl, env) ==
    IF Unpack(value, 2) # "" THEN Ret(Raise(Unpack(value, 2)), value, tpl)
    ELSE IF ~IsList(value.l[2]) THEN Ret(Raise("TypeError"), value, tpl)
    ELSE LET Looped(loop) ==
                 LET value1 == Lst([value.l EXCEPT ![2] = Lst(loop.l)])
                 IN IF loop.out.k = "done"
                    THEN Ret(PyJoin(value.l[1], loop.l), value1, loop.tpl)
                    ELSE Ret(loop.out, value1, loop.tpl)
         IN Looped(JoinLoop(value.l[2].l, 1, tpl, env))

(* int(index) *)
Digits == {"0", "1", "2", "3"}
PyInt(index) ==
    CASE index.k = "int" -> index
      [] index.k = "str" ->
            IF Len(index.s) = 1 /\ index.s[1] \in Digits
            THEN Num(CHOOSE n \in 0..3 : ToString(n) = index.s[1])
            ELSE Raise("ValueError")
      [] OTHER -> Raise("TypeError")

(* objects[n]: a negative n counts from the end; a string is indexed by
   token *)
Subscript(objects, n) ==
    LET items == IF IsList(objects) THEN objects.l ELSE [i \in DOMAIN objects.s |-> T(objects.s[i])]
    IN IF ~(IsList(objects) \/ IsStr(objects)) THEN Raise("TypeError")
       ELSE IF n >= 0 /\ n < Len(items) THEN items[n + 1]
       ELSE IF n < 0 /\ -n <= Len(items) THEN items[Len(items) + n + 1]
       ELSE Raise("IndexError")

(* the loop of select over a list: objects[i] = eval(obj) for every dict *)
SelectLoop(objects, i, tpl, env) ==
    IF i > Len(objects) THEN [out |-> [k |-> "done"], l |-> objects, tpl |-> tpl]
    ELSE IF ~IsDict(objects[i]) THEN SelectLoop(objects, i + 1, tpl, env)
    ELSE LET Element(r) ==
                 IF IsRaise(r.out)
                 THEN [out |-> r.out, l |-> [objects EXCEPT ![i] = r.node], tpl |-> r.tpl]
                 ELSE IF IsNone(r.out)
                 THEN [out |-> None, l |-> [objects EXCEPT ![i] = None], tpl |-> r.tpl]
                 ELSE SelectLoop([objects EXCEPT ![i] = r.out], i + 1, r.tpl, env)
         IN Element(Eval(objects[i], tpl, env))

select(value, tpl, env) ==
    IF Unpack(value, 2) # "" THEN Ret(Raise(Unpack(value, 2)), value, tpl)
    ELSE
    LET Indexed(ri) ==
            LET value1 == Lst([value.l EXCEPT ![1] = ri.node])
                index == ri.out
                Resolved(ro) ==
                    LET value2 == Lst([value1.l EXCEPT ![2] = ro.node])
                    IN IF IsRaise(ro.out) \/ IsNone(ro.out) THEN Ret(ro.out, value2, ro.tpl)
                       ELSE IF IsRaise(PyInt(index)) THEN Ret(PyInt(index), value2, ro.tpl)
                       ELSE Ret(Subscript(ro.out, PyInt(index).n), value2, ro.tpl)
                Looped(loop) ==
                    LET value2 == Lst([value1.l EXCEPT ![2] = Lst(loop.l)])
                    IN IF loop.out.k # "done" THEN Ret(loop.out, value2, loop.tpl)
                       ELSE IF IsRaise(PyInt(index)) THEN Ret(PyInt(index), value2, loop.tpl)
                       ELSE Ret(Subscript(Lst(loop.l), PyInt(index).n), value2, loop.tpl)
            IN IF IsRaise(index) THEN Ret(index, value1, ri.tpl)
               ELSE IF IsDict(value.l[1]) /\ IsNone(index) THEN Ret(None, value1, ri.tpl)
               ELSE IF IsDict(value.l[2]) THEN Resolved(Eval(value.l[2], ri.tpl, env))
               ELSE IF IsStr(value.l[2])
               THEN IF IsRaise(PyInt(index)) THEN Ret(PyInt(index), value1, ri.tpl)
                    ELSE Ret(Subscript(value.l[2], PyInt(index).n), value1, ri.tpl)
               ELSE IF ~IsList(value.l[2]) THEN Ret(Raise("TypeError"), value1, ri.tpl)
               ELSE Looped(SelectLoop(value.l[2].l, 1, ri.tpl, env))
    IN Indexed(IF IsDict(value.l[1]) THEN Eval(value.l[1], tpl, env)
               ELSE [out |-> value.l[1], node |-> value.l[1], tpl |-> tpl])

split(value, tpl, env) ==
    IF Unpack(value, 2) # "" THEN Ret(Raise(Unpack(value, 2)), value, tpl)
    ELSE
    LET delimiter == value.l[1]
        Sourced(r) ==
            LET value1 == Lst([value.l EXCEPT ![2] = r.node])
                source == r.out
            IN IF IsRaise(source) THEN Ret(source, value1, r.tpl)
               ELSE IF IsDict(value.l[2]) /\ IsNone(source) THEN Ret(None, value1, r.tpl)
               ELSE IF ~IsStr(source) THEN Ret(Raise("AttributeError"), value1, r.tpl)
               ELSE IF IsNone(delimiter) THEN Ret(Lst(<<source>>), value1, r.tpl)
               ELSE IF ~IsStr(delimiter) THEN Ret(Raise("TypeError"), value1, r.tpl)
               ELSE IF delimiter.s = <<>> THEN Ret(Raise("ValueError"), value1, r.tpl)
               ELSE IF Len(delimiter.s) > 1 THEN Ret(Lst(<<source>>), value1, r.tpl)
               ELSE Ret(Lst(SplitSeq(source.s, delimiter.s[1], <<>>)), value1, r.tpl)
    IN Sourced(IF IsDict(value.l[2]) THEN Eval(value.l[2], tpl, env)
               ELSE [out |-> value.l[2], node |-> value.l[2], tpl |-> tpl])

(* the loop of sub over var_list: [out, result, l, tpl]; result is the
   string of the last replacement, or "unbound" while nothing was assigned *)
Unbound == [k |-> "unbound"]
SubLoop(string, var_list, i, result, tpl, env) ==
    IF i > Len(var_list)
    THEN [out |-> [k |-> "done"], result |-> result, l |-> var_list, tpl |-> tpl]
    ELSE
    LET var_dict == var_list[i]
        Stop(out, l, t) == [out |-> out, result |-> result, l |-> l, tpl |-> t]
    IN IF ~IsDict(var_dict) THEN Stop(Raise("AttributeError"), var_list, tpl)
       ELSE IF var_dict.kv = <<>> THEN Stop(Raise("IndexError"), var_list, tpl)
       ELSE
       LET var_name == var_dict.kv[1][1]
           Valued(r) ==
               LET var_list1 == [var_list EXCEPT ![i] =
                                    Dct([var_dict.kv EXCEPT ![1] = <<var_name, r.node>>])]
                   var_value == r.out
               IN IF IsRaise(var_value) THEN Stop(var_value, var_list1, r.tpl)
                  ELSE IF IsDict(var_dict.kv[1][2]) /\ IsNone(var_value)
                  THEN Stop(None, var_list1, r.tpl)
                  ELSE IF ~IsStr(string) THEN Stop(Raise("TypeError"), var_list1, r.tpl)
                  ELSE IF Contains(string.s, var_name)
                  THEN SubLoop(string, var_list1, i + 1,
                               Str(Replace(string.s, Placeholder(var_name),
                                           Text(var_value))),
                               r.tpl, env)
                  ELSE Stop(None, var_list1, r.tpl)
       IN Valued(IF IsDict(var_dict.kv[1][2]) THEN Eval(var_dict.kv[1][2], tpl, env)
                     ELSE [out |-> var_dict.kv[1][2], node |-> var_dict.kv[1][2],
                           tpl |-> tpl])

sub(value, tpl, env) ==
    IF IsList(value)
    THEN IF Unpack(value, 2) # "" THEN Ret(Raise(Unpack(value, 2)), value, tpl)
         ELSE IF IsDict(value.l[2]) /\ value.l[2].kv # <<>>
         THEN Ret(Raise("AttributeError"), value, tpl)
         ELSE IF IsStr(value.l[2]) /\ value.l[2].s # <<>>
         THEN Ret(Raise("AttributeError"), value, tpl)
         ELSE IF value.l[2].k \in {"none", "int"} THEN Ret(Raise("TypeError"), value, tpl)
         ELSE
         LET var_list == IF IsList(value.l[2]) THEN value.l[2].l ELSE <<>>
             Looped(loop) ==
                 LET value1 == IF IsList(value.l[2])
                               THEN Lst([value.l EXCEPT ![2] = Lst(loop.l)]) ELSE value
                 IN IF loop.out.k # "done" THEN Ret(loop.out, value1, loop.tpl)
                    ELSE IF loop.result = Unbound
                    THEN Ret(Raise("UnboundLocalError"), value1, loop.tpl)
                    ELSE IF FindAll(loop.result.s) = <<>>
                    THEN Ret(loop.result, value1, loop.tpl)
                    ELSE Ret(replace_placeholders(loop.result.s, FindAll(loop.result.s),
                                                  env),
                             value1, loop.tpl)
         IN Looped(SubLoop(value.l[1], var_list, 1, Unbound, tpl, env))
    ELSE IF IsStr(value)
    THEN Ret(replace_placeholders(value.s, FindAll(value.s), env), value, tpl)
    ELSE Ret(Raise("TypeError"), value, tpl)

functions ==
    {"Fn::Base64", "Fn::FindInMap", "Fn::GetAtt", "Fn::Join", "Fn::Select",
     "Fn::Split", "Fn::Sub", "Ref"}

(* the else branch of eval raising the NotImplementedError its docstring
   names; C23 tells the code from this variant *)
not_implemented_raises(fun, val, tpl) == Ret(Raise("NotImplementedError"), val, tpl)

(* the else branch of eval: a warning is logged and None returned *)
not_implemented(fun, val, tpl) == Ret(None, val, tpl)

(* IntrinsicFunctions.eval: [out, node, tpl] *)
Eval(function, tpl, env) ==
    IF ~IsDict(function)
    THEN [out |-> Raise("AttributeError"), node |-> function, tpl |-> tpl]
    ELSE IF function.kv = <<>>
    THEN [out |-> Raise("IndexError"), node |-> function, tpl |-> tpl]
    ELSE
    LET fun == function.kv[1][1]
        val == function.kv[1][2]
        Called(r) ==
            [out |-> r.out,
             node |-> Dct([function.kv EXCEPT ![1] = <<fun, r.val>>]),
             tpl |-> r.tpl]
    IN Called(CASE fun = "Fn::Base64" -> base64(val, tpl, env)
                [] fun = "Fn::FindInMap" -> find_in_map(val, tpl, env)
                [] fun = "Fn::GetAtt" -> get_att(val, tpl, env)
                [] fun = "Fn::Join" -> join(val, tpl, env)
                [] fun = "Fn::Select" -> select(val, tpl, env)
                [] fun = "Fn::Split" -> split(val, tpl, env)
                [] fun = "Fn::Sub" -> sub(val, tpl, env)
                [] fun = "Ref" -> ref(val, tpl, env)
                [] OTHER -> not_implemented(fun, val, tpl))

-----------------------------------------------------------------------------
(* CloudformationTemplate *)

ResourceType ==
    [API |-> "AWS::Serverless::Api", FUNCTION |-> "AWS::Serverless::Function",
     QUEUE |-> "AWS::SQS::Queue", BUCKET |-> "AWS::S3::Bucket"]

(* find_nodes: [err, nodes]; nodes is the dict of the entries of tree whose
   Type is node_type, in the order of tree *)
RECURSIVE FindNodesFrom(_, _, _)
FindNodesFrom(kv, i, node_type) ==
    IF i > Len(kv) THEN [err |-> "", nodes |-> <<>>]
    ELSE IF ~IsDict(kv[i][2]) THEN [err |-> "TypeError", nodes |-> <<>>]
    ELSE IF ~Has(kv[i][2], "Type") THEN [err |-> "KeyError", nodes |-> <<>>]
    ELSE LET rest == FindNodesFrom(kv, i + 1, node_type)
         IN IF rest.err # "" THEN rest
            ELSE IF Get(kv[i][2], "Type") = T(node_type)
            THEN [err |-> "", nodes |-> <<kv[i]>> \o rest.nodes]
            ELSE rest

(* find_nodes without the test of the Type: every entry of tree is
   returned.  C18 tells the code from this variant *)
find_nodes_of_any_type(tree, node_type) == [err |-> "", nodes |-> tree]

find_nodes(tree, node_type) ==
    LET r == FindNodesFrom(tree.kv, 1, node_type)
    IN [err |-> r.err, nodes |-> Dct(r.nodes)]

(* evaluate_and_replace(obj) for the dict obj found at path in the template:
   [err, tpl].  A key that names an intrinsic function gets the result of
   eval(obj), a dict value is walked in turn; a list value is left alone *)
RECURSIVE evaluate_and_replace(_, _, _, _)
evaluate_and_replace(tpl, path, i, env) ==
    LET obj == GetPath(tpl, path)
    IN IF i > Len(obj.kv) THEN [err |-> "", tpl |-> tpl]
       ELSE
       LET key == obj.kv[i][1]
           value == obj.kv[i][2]
           Replaced(r) ==
               LET tpl1 == SetPath(r.tpl, path, r.node)
               IN IF IsRaise(r.out) THEN [err |-> r.out.e, tpl |-> tpl1]
                  ELSE evaluate_and_replace(
                           SetPath(tpl1, path \o <<key>>, r.out), path, i + 1, env)
           Walked(inner) ==
               IF inner.err # "" THEN inner
               ELSE evaluate_and_replace(inner.tpl, path, i + 1, env)
       IN IF key \in functions THEN Replaced(Eval(obj, tpl, env))
          ELSE IF IsDict(value)
          THEN Walked(evaluate_and_replace(tpl, path \o <<key>>, 1, env))
          ELSE evaluate_and_replace(tpl, path, i + 1, env)

(* set_parameters: [err, tpl] *)
RECURSIVE SetParametersFrom(_, _, _)
SetParametersFrom(tpl, params, i) ==
    IF i > Len(params.kv) THEN [err |-> "", tpl |-> tpl]
    ELSE LET name == params.kv[i][1]
             value == params.kv[i][2]
             declared == Get(tpl, "Parameters")
         IN IF ~Has(declared, name) THEN SetParametersFrom(tpl, params, i + 1)
            ELSE IF ~IsDict(Get(declared, name)) THEN [err |-> "TypeError", tpl |-> tpl]
            ELSE SetParametersFrom(
                     SetPath(tpl, <<"Parameters", name>>,
                             Put(Get(declared, name), "Default", value)),
                     params, i + 1)

(* set_parameters leaving every Default as the file has it: C3 tells the
   code from this variant *)
set_parameters_ignored(tpl, params) == [err |-> "", tpl |-> tpl]

(* set_parameters without the test that the name is declared: an override
   of an undeclared name adds an entry to Parameters.  C15 tells the code
   from this variant *)
set_parameters_undeclared(tpl, params) ==
    IF ~Has(tpl, "Parameters") \/ IsNone(params) THEN [err |-> "", tpl |-> tpl]
    ELSE LET Added(r) ==
                 LET declared == Get(r.tpl, "Parameters")
                     new == SelectSeq(params.kv, LAMBDA e : ~Has(declared, e[1]))
                 IN [err |-> r.err,
                     tpl |-> Put(r.tpl, "Parameters",
                                 Dct(declared.kv \o
                                     [i \in 1..Len(new) |->
                                         <<new[i][1],
                                           Dct(<< <<"Default", new[i][2]>> >>)>>]))]
         IN Added(SetParametersFrom(tpl, params, 1))

set_parameters(tpl, params) ==
    IF ~Has(tpl, "Parameters") THEN [err |-> "", tpl |-> tpl]
    ELSE SetParametersFrom(tpl, IF IsNone(params) THEN EmptyDict ELSE params, 1)

(* include_files: [err, tpl].  files maps the names of the files that exist
   to what yaml.safe_load reads from them *)
Lookup(v, key) ==
    IF IsRaise(v) THEN v
    ELSE IF ~IsDict(v) THEN Raise("TypeError")
    ELSE IF ~Has(v, key) THEN Raise("KeyError")
    ELSE Get(v, key)

RECURSIVE IncludeFrom(_, _, _, _)
IncludeFrom(tpl, apis, i, files) ==
    IF i > Len(apis.kv) THEN [err |-> "", tpl |-> tpl]
    ELSE
    LET id == apis.kv[i][1]
        properties == Lookup(GetPath(tpl, <<"Resources", id>>), "Properties")
        lc == Lookup(Lookup(Lookup(Lookup(properties, "DefinitionBody"),
                                   "Fn::Transform"), "Parameters"), "Location")
    IN IF IsRaise(properties) THEN [err |-> properties.e, tpl |-> tpl]
       ELSE IF ~IsDict(properties) THEN [err |-> "TypeError", tpl |-> tpl]
       ELSE IF ~Has(properties, "DefinitionBody") THEN IncludeFrom(tpl, apis, i + 1, files)
       ELSE IF IsRaise(lc) THEN [err |-> lc.e, tpl |-> tpl]
       ELSE IF ~IsStr(lc) THEN [err |-> "TypeError", tpl |-> tpl]
       ELSE IF Flat(lc.s) \notin DOMAIN files THEN [err |-> "FileNotFoundError", tpl |-> tpl]
       ELSE IncludeFrom(
                SetPath(tpl, <<"Resources", id, "Properties", "DefinitionBody">>,
                        files[Flat(lc.s)]),
                apis, i + 1, files)

include_files(tpl, files) ==
    IF ~Has(tpl, "Resources") THEN [err |-> "KeyError", tpl |-> tpl]
    ELSE LET apis == find_nodes(Get(tpl, "Resources"), ResourceType.API)
         IN IF apis.err # "" THEN [err |-> apis.err, tpl |-> tpl]
            ELSE IncludeFrom(tpl, apis.nodes, 1, files)

(* Function.environment *)
FunctionEnvironment(resource) ==
    IF ~Has(resource, "Properties") THEN Raise("KeyError")
    ELSE GetOr(GetOr(Get(resource, "Properties"), "Environment", EmptyDict),
               "Variables", EmptyDict)

(* variables.update(other) *)
RECURSIVE Update(_, _, _)
Update(variables, other, i) ==
    IF i > Len(other.kv) THEN variables
    ELSE Update(Put(variables, other.kv[i][1], other.kv[i][2]), other, i + 1)

RECURSIVE UpdateFromFunctions(_, _, _)
UpdateFromFunctions(variables, funs, i) ==
    IF i > Len(funs.kv) THEN [err |-> "", variables |-> variables]
    ELSE LET e == FunctionEnvironment(funs.kv[i][2])
         IN IF IsRaise(e) THEN [err |-> e.e, variables |-> variables]
            ELSE UpdateFromFunctions(Update(variables, e, 1), funs, i + 1)

GlobalsPath == <<"Globals", "Function", "Environment", "Variables">>

HasGlobals(tpl) ==
    /\ Has(tpl, "Globals")
    /\ Has(Get(tpl, "Globals"), "Function")
    /\ Has(GetPath(tpl, <<"Globals", "Function">>), "Environment")
    /\ Has(GetPath(tpl, <<"Globals", "Function", "Environment">>), "Variables")

(* a find_environment that gives a variable with the name of a declared
   parameter the text of the parameter's declaration, Default included *)
find_environment_of_parameters(tpl) ==
    LET funs == find_nodes(Get(tpl, "Resources"), ResourceType.FUNCTION)
        globals == IF HasGlobals(tpl) THEN GetPath(tpl, GlobalsPath) ELSE EmptyDict
        updated == UpdateFromFunctions(globals, funs.nodes, 1)
        IsParameter(name) == Has(tpl, "Parameters") /\ Has(Get(tpl, "Parameters"), name)
        variables == Dct([i \in DOMAIN updated.variables.kv |->
                             <<updated.variables.kv[i][1],
                               IF IsParameter(updated.variables.kv[i][1])
                               THEN PyStr(Get(Get(tpl, "Parameters"),
                                              updated.variables.kv[i][1]))
                               ELSE PyStr(updated.variables.kv[i][2])>>])
    IN IF funs.err # "" \/ updated.err # ""
       THEN [err |-> "KeyError", variables |-> None, tpl |-> tpl]
       ELSE [err |-> "", variables |-> variables, tpl |-> tpl]

(* find_environment: [err, variables, tpl].  variables is the Variables
   dict of Globals itself when the template has one, so what the loops assign
   into it is assigned into the template *)
find_environment(tpl) ==
    LET funs == find_nodes(Get(tpl, "Resources"), ResourceType.FUNCTION)
        globals == IF HasGlobals(tpl) THEN GetPath(tpl, GlobalsPath) ELSE EmptyDict
        updated == UpdateFromFunctions(globals, funs.nodes, 1)
        variables == Dct([i \in DOMAIN updated.variables.kv |->
                             <<updated.variables.kv[i][1],
                               PyStr(updated.variables.kv[i][2])>>])
        Alias(v) == IF HasGlobals(tpl) THEN SetPath(tpl, GlobalsPath, v) ELSE tpl
    IN IF funs.err # "" THEN [err |-> funs.err, variables |-> None, tpl |-> tpl]
       ELSE IF updated.err # ""
       THEN [err |-> updated.err, variables |-> None, tpl |-> Alias(updated.variables)]
       ELSE [err |-> "", variables |-> variables, tpl |-> Alias(variables)]

-----------------------------------------------------------------------------
(* The resource classes *)

EventType == [API |-> "Api", SQS |-> "SQS", SCHEDULE |-> "Schedule"]

(* EventType(value): the member that has the value, ValueError when no
   member has it *)
EventTypeOf(value) ==
    IF \E m \in DOMAIN EventType : value = T(EventType[m])
    THEN [k |-> "member",
          name |-> CHOOSE m \in DOMAIN EventType : value = T(EventType[m])]
    ELSE Raise("ValueError")

(* an instance of a Resource class; its resource is the mapping of the
   document itself, which the instance holds by reference *)
Object(cls, resource_id) == [k |-> "object", cls |-> cls, id |-> resource_id]

event_sources == [API |-> "ApiEvent", SQS |-> "SQSEvent", SCHEDULE |-> "ScheduleEvent"]

(* EventSource.from_resource, called on the class cls *)
from_resource(cls, resource_id, resource) ==
    LET Made(event_type) ==
            IF IsRaise(event_type) THEN event_type
            ELSE Object(IF event_type.name \in DOMAIN event_sources
                        THEN event_sources[event_type.name] ELSE cls,
                        resource_id)
    IN IF ~IsDict(resource) THEN Raise("TypeError")
       ELSE IF ~Has(resource, "Type") THEN Raise("KeyError")
       ELSE Made(EventTypeOf(Get(resource, "Type")))

(* bool(x) *)
Truthy(x) ==
    CASE x.k = "none" -> FALSE
      [] x.k = "str" -> x.s # <<>>
      [] x.k = "int" -> x.n # 0
      [] x.k = "list" -> x.l # <<>>
      [] x.k = "dict" -> x.kv # <<>>
      [] OTHER -> TRUE

(* Function.handler keeping every "/" of the joined path.  C19 tells the
   code from this variant *)
handler_with_slashes(resource) ==
    LET handler_path == Lookup(Lookup(resource, "Properties"), "Handler")
        code_uri == GetOr(Lookup(resource, "Properties"), "CodeUri", None)
    IN IF IsRaise(handler_path) THEN handler_path
       ELSE IF Truthy(code_uri)
       THEN Str(PyStr(code_uri).s \o <<".">> \o PyStr(handler_path).s)
       ELSE handler_path

(* Function.handler on its first read: the path, or the exception.  A text
   is a sequence of tokens in which "/" and "." are tokens of their own *)
handler(resource) ==
    LET handler_path == Lookup(Lookup(resource, "Properties"), "Handler")
        code_uri == GetOr(Lookup(resource, "Properties"), "CodeUri", None)
    IN IF IsRaise(handler_path) THEN handler_path
       ELSE IF Truthy(code_uri)
       THEN Str(Replace(PyStr(code_uri).s \o <<".">> \o PyStr(handler_path).s,
                        "/", <<>>))
       ELSE handler_path

(* the loop of Function.events over events from its i-th entry on, _events
   being what the loop has stored so far: [err, _events] *)
RECURSIVE EventsFrom(_, _, _)
EventsFrom(events, i, stored) ==
    IF i > Len(events.kv) THEN [err |-> "", _events |-> stored]
    ELSE LET resource_id == events.kv[i][1]
             Stored(event) ==
                 IF IsRaise(event) THEN [err |-> event.e, _events |-> stored]
                 ELSE EventsFrom(events, i + 1, Put(stored, resource_id, event))
         IN Stored(from_resource("EventSource", resource_id, events.kv[i][2]))

(* Function.events on its first read: [err, _events].  _events is assigned
   the empty dict before anything can raise, and keeps what the loop stored
   when from_resource raises *)
events(resource) ==
    LET properties == Lookup(resource, "Properties")
    IN IF IsRaise(properties) THEN [err |-> properties.e, _events |-> EmptyDict]
       ELSE IF ~IsDict(properties) THEN [err |-> "AttributeError", _events |-> EmptyDict]
       ELSE IF ~IsDict(GetOr(properties, "Events", EmptyDict))
       THEN [err |-> "AttributeError", _events |-> EmptyDict]
       ELSE EventsFrom(GetOr(properties, "Events", EmptyDict), 1, EmptyDict)

(* the body of the properties functions, apis, queues and buckets on their
   first read: [err, ids], ids being the keys of the dict of objects the
   property stores, which is empty when find_nodes raises *)
NodesOfType(tpl, node_type) ==
    LET Found(r) == [err |-> r.err,
                     ids |-> IF r.err = "" THEN Keys(r.nodes) ELSE <<>>]
    IN IF ~Has(tpl, "Resources") THEN [err |-> "KeyError", ids |-> <<>>]
       ELSE IF ~IsDict(Get(tpl, "Resources"))
       THEN [err |-> "AttributeError", ids |-> <<>>]
       ELSE Found(find_nodes(Get(tpl, "Resources"), node_type))

-----------------------------------------------------------------------------
(* The loader: the constructor of the tags that begin with "!" *)

PREFIX == "Fn::"
WITHOUT_PREFIX == {"Ref", "Condition"}

(* yaml nodes: a ScalarNode has its text as value, a SequenceNode its
   element nodes, a MappingNode its pairs of key node and value node; Node
   is the base class *)
ScalarNode(value) == [kind |-> "ScalarNode", value |-> value]
SequenceNode(value) == [kind |-> "SequenceNode", value |-> Lst(value)]
MappingNode(value) == [kind |-> "MappingNode", value |-> Lst(value)]
BaseNode == [kind |-> "Node", value |-> None]

(* loader.construct_scalar, construct_sequence and construct_mapping for
   nodes whose elements are plain text *)
construct_scalar(n) == n.value
construct_sequence(n) ==
    Lst([i \in DOMAIN n.value.l |-> construct_scalar(n.value.l[i])])
construct_mapping(n) ==
    Dct([i \in DOMAIN n.value.l |->
            <<Flat(construct_scalar(n.value.l[i][1]).s),
              construct_scalar(n.value.l[i][2])>>])

(* value.split("."), which splits at every "."; C21 tells the code from
   this variant *)
SplitEvery(s, d) == SplitSeq(s, d, <<>>)

(* value.split(".", 1) *)
SplitOnce(s, d) ==
    IF \E i \in DOMAIN s : s[i] = d
    THEN LET i == CHOOSE i \in DOMAIN s : s[i] = d /\ \A j \in 1..(i - 1) : s[j] # d
         IN <<Str(SubSeq(s, 1, i - 1)), Str(SubSeq(s, i + 1, Len(s)))>>
    ELSE <<Str(s)>>

construct_getatt(n) ==
    CASE n.kind = "ScalarNode" -> Lst(SplitOnce(n.value.s, "."))
      [] n.kind = "SequenceNode" ->
            Lst([i \in DOMAIN n.value.l |-> n.value.l[i].value])
      [] n.kind = "MappingNode" -> Raise("AttributeError")
      [] OTHER -> Raise("CFBadNode")

multi_constructor(suffix, n) ==
    LET tag == IF suffix \notin WITHOUT_PREFIX THEN PREFIX \o suffix ELSE suffix
    IN IF tag = "Fn::GetAtt"
       THEN (IF IsRaise(construct_getatt(n)) THEN construct_getatt(n)
             ELSE Fn(tag, construct_getatt(n)))
       ELSE CASE n.kind = "ScalarNode" -> Fn(tag, construct_scalar(n))
              [] n.kind = "SequenceNode" -> Fn(tag, construct_sequence(n))
              [] n.kind = "MappingNode" -> Fn(tag, construct_mapping(n))
              [] OTHER -> Raise("CFBadTag")

-----------------------------------------------------------------------------
(* The Lambda authorizer.  Times are whole seconds. *)

(* the seconds of expiration_threshold *)
expiration_threshold == 2

HTTPStatus == [BAD_REQUEST |-> 400, UNAUTHORIZED |-> 401, INTERNAL_SERVER_ERROR |-> 500]

(* Credentials: the fields that decide a path of the code *)
Credentials(role_arn, web_identity_token) ==
    [k |-> "Credentials", role_arn |-> role_arn,
     web_identity_token |-> web_identity_token]

(* LambdaClient(credentials) *)
LambdaClient(creds) ==
    [k |-> "LambdaClient", credentials |-> creds, _expires_at |-> None,
     _client |-> None]

(* the client of boto3 for a set of credentials, which expire at a time or,
   None, never *)
BaseClient(expires_at) == [k |-> "client", expires_at |-> expires_at]

(* LambdaClient.expired when datetime.now() is now *)
expired(self, now) ==
    IF self._expires_at = None THEN FALSE
    ELSE LET remaining == self._expires_at.n - now
         IN remaining > expiration_threshold

(* assume_role: [err, self]; expiration is the Expiration of the reply of
   STS *)
assume_role(self, expiration) ==
    IF self.credentials.web_identity_token # None
    THEN [err |-> "", self |-> [self EXCEPT !._expires_at = Num(expiration)]]
    ELSE [err |-> "NotImplementedError", self |-> self]

set_client(self, expiration) ==
    IF self.credentials.role_arn # None
    THEN LET r == assume_role(self, expiration)
         IN IF r.err # "" THEN r
            ELSE [err |-> "",
                  self |-> [r.self EXCEPT !._client = BaseClient(r.self._expires_at)]]
    ELSE [err |-> "", self |-> [self EXCEPT !._client = BaseClient(None)]]

refresh(self, expiration) == set_client(self, expiration)

(* LambdaClient.client *)
LambdaClient_client(self, expiration) ==
    IF self._client = None THEN set_client(self, expiration)
    ELSE [err |-> "", self |-> self]

(* LambdaAuthorizerMiddleware.client: [err, _lambda_client, refreshed, out] *)
client(lambda_client, creds, now, expiration) ==
    LET self == IF lambda_client = None THEN LambdaClient(creds) ELSE lambda_client
        refreshed == expired(self, now)
        r == IF refreshed THEN refresh(self, expiration) ELSE [err |-> "", self |-> self]
        c == IF r.err # "" THEN r ELSE LambdaClient_client(r.self, expiration)
    IN [err |-> c.err, _lambda_client |-> c.self, refreshed |-> refreshed,
        out |-> IF c.err = "" THEN c.self._client ELSE None]

(* a text that is the JSON of a document, and a text that is no JSON *)
Json(doc) == [k |-> "json", doc |-> doc]
NoJson == [k |-> "text", s |-> <<"not", "json">>]

(* json.loads *)
json_loads(data) == IF data.k = "json" THEN data.doc ELSE Raise("JSONDecodeError")

(* x[key] and x[0] of Python *)
GetItem(x, key) ==
    IF IsRaise(x) THEN x
    ELSE IF IsDict(x) THEN (IF Has(x, key) THEN Get(x, key) ELSE Raise("KeyError"))
    ELSE Raise("TypeError")

GetFirst(x) ==
    IF IsRaise(x) THEN x
    ELSE IF IsDict(x) THEN Raise("KeyError")
    ELSE Subscript(x, 0)

(* invoke_lambda: [payload, reply, client]; reply is what invoke of the
   client answers, a Raise or the text of the Payload, and NotSet when the
   call was not made *)
invoke_lambda(lambda_client, creds, now, expiration, reply) ==
    LET c == client(lambda_client, creds, now, expiration)
    IN IF c.err # "" THEN [payload |-> None, reply |-> [k |-> "notset"], client |-> c]
       ELSE IF IsRaise(reply) THEN [payload |-> None, reply |-> reply, client |-> c]
       ELSE [payload |-> json_loads(reply), reply |-> reply, client |-> c]

(* a Response, the answer of call_next, and an exception that leaves
   dispatch *)
Response(content, status_code) ==
    [k |-> "response", forwarded |-> FALSE, raised |-> "",
     content |-> content, status_code |-> status_code]
CallNext(request) ==
    [k |-> "response", forwarded |-> TRUE, raised |-> "",
     content |-> request, status_code |-> 0]
Raised(e) ==
    [k |-> "response", forwarded |-> FALSE, raised |-> e,
     content |-> None, status_code |-> 0]

Message(text) == Dct(<< <<"message", Str(text)>> >>)

(* a dispatch that forwards whatever the Effect is *)
authorize_any_effect(payload) ==
    IF IsRaise(payload) THEN Raised(payload.e)
    ELSE IF Truthy(payload) THEN CallNext(None)
    ELSE IF payload = None
    THEN Response(Message(<<"Something went wrong. Try again">>),
                  HTTPStatus.INTERNAL_SERVER_ERROR)
    ELSE Response(Message(<<"Unauthorized">>), HTTPStatus.UNAUTHORIZED)

(* LambdaAuthorizerMiddleware.dispatch from the payload on *)
authorize(payload) ==
    LET effect == GetItem(GetFirst(GetItem(GetItem(payload, "policyDocument"),
                                           "Statement")), "Effect")
    IN IF IsRaise(payload) THEN Raised(payload.e)
       ELSE IF Truthy(payload) /\ IsRaise(effect) THEN Raised(effect.e)
       ELSE IF Truthy(payload) /\ effect = T("Allow") THEN CallNext(None)
       ELSE IF payload = None
       THEN Response(Message(<<"Something went wrong. Try again">>),
                     HTTPStatus.INTERNAL_SERVER_ERROR)
       ELSE Response(Message(<<"Unauthorized">>), HTTPStatus.UNAUTHORIZED)

-----------------------------------------------------------------------------
(* The queue path rewriter *)

Request(method, body, path) ==
    [k |-> "request", method |-> method, body |-> body, path |-> path]

(* queue.rsplit("/")[-1]: the tokens after the last "/" *)
LastSegment(s) ==
    LET slashes == {i \in DOMAIN s : s[i] = "/"}
        last_slash == CHOOSE i \in slashes : \A j \in slashes : j <= i
    IN IF slashes = {} THEN s ELSE SubSeq(s, last_slash + 1, Len(s))

(* QueuePathRewriterMiddleware.dispatch *)
rewrite(request) ==
    LET body == json_loads(request.body)
        queue == GetItem(GetItem(GetItem(body, "message"), "attributes"), "endpoint")
    IN IF request.method # "POST" THEN CallNext(request)
       ELSE IF IsRaise(body)
       THEN Response(Message(<<"Invalid Request">>), HTTPStatus.BAD_REQUEST)
       ELSE IF IsRaise(queue) THEN Raised(queue.e)
       ELSE IF ~IsStr(queue) THEN Raised("TypeError")
       ELSE CallNext([request EXCEPT !.path = Str(<<"/">> \o LastSegment(queue.s))])

-----------------------------------------------------------------------------
(* The Redis cache *)

(* the Redis connection: what the server stores, and how many of the next
   commands raise ConnectionError *)
Redis(store, failures) == [k |-> "Redis", store |-> store, failures |-> failures]

(* Redis.from_url(url=CACHE_URL) *)
from_url == Redis(EmptyDict, 0)

(* the connection property *)
connection(_connection) == IF _connection = None THEN from_url ELSE _connection

(* reconnect(self); called without an instance, self is NotSet *)
reconnect(self) ==
    IF self = [k |-> "notset"] THEN Raise("TypeError") ELSE self

(* RedisCache.set: the connection afterwards *)
set(_connection, key, value) ==
    LET conn == connection(_connection)
    IN IF conn.failures > 0
       THEN [conn EXCEPT !.failures = @ - 1]
       ELSE [conn EXCEPT !.store = Put(@, key, value)]

(* RedisCache.get: [out, _connection, gets, reconnects], with the calls of
   connection.get and of reconnect that were made *)
RECURSIVE get(_, _, _)
get(_connection, key, retry) ==
    LET conn == connection(_connection)
        failed == [conn EXCEPT !.failures = @ - 1]
        Again(reconnected, next) ==
            IF IsRaise(reconnected)
            THEN [out |-> reconnected, _connection |-> failed, gets |-> 1,
                  reconnects |-> 0]
            ELSE [out |-> next.out, _connection |-> next._connection,
                  gets |-> next.gets + 1, reconnects |-> next.reconnects + 1]
    IN IF retry > 0
       THEN IF conn.failures > 0
            THEN Again(reconnect([k |-> "notset"]), get(failed, key, retry - 1))
            ELSE [out |-> GetOr(conn.store, key, None), _connection |-> conn,
                  gets |-> 1, reconnects |-> 0]
       ELSE [out |-> None, _connection |-> _connection, gets |-> 0,
             reconnects |-> 0]

-----------------------------------------------------------------------------
(* The files on disk, as the YAML loader reads them *)

Param(type, default) == Dct(<< <<"Type", T(type)>>, <<"Default", default>> >>)

ExampleTemplate ==
    Dct(<<
      <<"Parameters", Dct(<<
          <<"Environment", Param("String", T("dev"))>>,
          <<"Timeout", Param("Number", Num(30))>>,
          <<"AttributeName", Param("String", T("StageName"))>>,
          <<"Handler", Dct(<< <<"Type", T("String")>> >>)>> >>)>>,
      <<"Mappings", Dct(<<
          <<"LogLevels", Dct(<<
              <<"dev", Dct(<< <<"Level", T("DEBUG")>> >>)>>,
              <<"development", Dct(<< <<"Level", T("INFO")>> >>)>> >>)>> >>)>>,
      <<"Globals", Dct(<< <<"Function", Dct(<< <<"Environment", Dct(<<
          <<"Variables", Dct(<<
              <<"ENVIRONMENT", Fn("Ref", T("Environment"))>>,
              <<"LOG_LEVEL", T("DEBUG")>>,
              <<"TIMEOUT", Num(30)>> >>)>> >>)>> >>)>> >>)>>,
      <<"Resources", Dct(<<
          <<"ApiGateway", Dct(<<
              <<"Type", T("AWS::Serverless::Api")>>,
              <<"Properties", Dct(<<
                  <<"Name", T("sam-api")>>,
                  <<"StageName", T("v1")>>,
                  <<"Tags", Fn("Ref", T("Unknown"))>> >>)>> >>)>>,
          <<"DatabasesQueue", Dct(<<
              <<"Type", T("AWS::SQS::Queue")>>,
              <<"Properties", Dct(<<
                  <<"QueueName", Fn("Fn::Join", Lst(<<T("-"),
                        Lst(<<T("queue"), Fn("Ref", T("Environment"))>>)>>))>>,
                  <<"VisibilityTimeout", Num(120)>>,
                  <<"RedrivePolicy", Dct(<<
                      <<"deadLetterTargetArn", T("arn:dlq")>>,
                      <<"maxReceiveCount", Num(3)>> >>)>> >>)>> >>)>>,
          <<"PlainQueue", Dct(<< <<"Type", T("AWS::SQS::Queue")>> >>)>>,
          <<"HelloWorldFunction", Dct(<<
              <<"Type", T("AWS::Serverless::Function")>>,
              <<"Properties", Dct(<<
                  <<"CodeUri", T("tests/")>>,
                  <<"Handler", T("handler")>>,
                  <<"Policies", Lst(<<Fn("Ref", T("Environment"))>>)>>,
                  <<"Environment", Dct(<< <<"Variables", Dct(<<
                      <<"STAGE_NAME", Fn("Fn::GetAtt",
                            Lst(<<T("ApiGateway"), T("StageName")>>))>>,
                      <<"LOG_LEVEL", T("INFO")>>,
                      <<"UNRESOLVED", Fn("Ref", T("Unknown"))>> >>)>> >>)>>
                  >>)>> >>)>> >>)>> >>)

Swagger ==
    Dct(<<
      <<"openapi", T("3.0.1")>>,
      <<"paths", Dct(<< <<"/hello", Dct(<< <<"get", Dct(<<
          <<"x-amazon-apigateway-integration", Dct(<<
              <<"uri", Fn("Fn::Sub", Str(<<"arn:", "${AWS::Region}", ":hello">>))>>
              >>)>> >>)>> >>)>> >>)>> >>)

(* no Parameters, no Globals; the Api includes an OpenAPI file *)
IncludeTemplate ==
    Dct(<<
      <<"Resources", Dct(<<
          <<"ApiGateway", Dct(<<
              <<"Type", T("AWS::Serverless::Api")>>,
              <<"Properties", Dct(<<
                  <<"Name", T("sam-api")>>,
                  <<"StageName", T("v1")>>,
                  <<"DefinitionBody", Dct(<< <<"Fn::Transform", Dct(<<
                      <<"Name", T("AWS::Include")>>,
                      <<"Parameters", Dct(<<
                          <<"Location", T("swagger.yml")>> >>)>> >>)>> >>)>>
                  >>)>> >>)>>,
          <<"HelloWorldFunction", Dct(<<
              <<"Type", T("AWS::Serverless::Function")>>,
              <<"Properties", Dct(<<
                  <<"CodeUri", T("tests/")>>,
                  <<"Handler", T("handler")>> >>)>> >>)>> >>)>> >>)

(* a template with a Fn::Select whose index is past the end of its list *)
SelectTemplate ==
    Dct(<<
      <<"Parameters", Dct(<< <<"Environment", Param("String", T("dev"))>> >>)>>,
      <<"Resources", Dct(<<
          <<"TestBucket", Dct(<<
              <<"Type", T("AWS::S3::Bucket")>>,
              <<"Properties", Dct(<<
                  <<"BucketName", Fn("Fn::Select", Lst(<<Num(2),
                        Lst(<<T("bucket-a"), T("bucket-b")>>)>>))>> >>)>> >>)>>
          >>)>> >>)

(* an Api whose DefinitionBody is an inline OpenAPI document, and an Api
   without DefinitionBody *)
InlineTemplate ==
    Dct(<<
      <<"Resources", Dct(<<
          <<"PlainApi", Dct(<<
              <<"Type", T("AWS::Serverless::Api")>>,
              <<"Properties", Dct(<< <<"StageName", T("v1")>> >>)>> >>)>>,
          <<"InlineApi", Dct(<<
              <<"Type", T("AWS::Serverless::Api")>>,
              <<"Properties", Dct(<<
                  <<"StageName", T("v1")>>,
                  <<"DefinitionBody", Dct(<<
                      <<"openapi", T("3.0.1")>>,
                      <<"paths", EmptyDict>> >>)>> >>)>> >>)>> >>)>> >>)

Event(type, properties) == Dct(<< <<"Type", T(type)>>, <<"Properties", properties>> >>)

Resource(type, properties) == Dct(<< <<"Type", T(type)>>, <<"Properties", properties>> >>)

(* resources of every kind and of two kinds the classes do not know; the
   functions differ in CodeUri and in the types of their events *)
ResourcesTemplate ==
    Dct(<<
      <<"Resources", Dct(<<
          <<"HelloWorldFunction", Resource("AWS::Serverless::Function", Dct(<<
              <<"CodeUri", Str(<<"hello_world">>)>>,
              <<"Handler", Str(<<"app", ".", "lambda_handler">>)>>,
              <<"Events", Dct(<<
                  <<"Hello", Event("Api", Dct(<<
                      <<"Path", Str(<<"/", "hello">>)>>, <<"Method", T("get")>> >>))>>,
                  <<"Jobs", Event("SQS", Dct(<<
                      <<"Queue", T("jobs")>>, <<"BatchSize", Num(1)>> >>))>>,
                  <<"Nightly", Event("Schedule", Dct(<<
                      <<"Schedule", T("rate(1 day)")>> >>))>> >>)>> >>))>>,
          <<"ApiGateway", Resource("AWS::Serverless::Api", Dct(<<
              <<"Name", T("api")>>, <<"StageName", T("v1")>> >>))>>,
          <<"SlashFunction", Resource("AWS::Serverless::Function", Dct(<<
              <<"CodeUri", Str(<<"hello_world", "/">>)>>,
              <<"Handler", Str(<<"app", ".", "lambda_handler">>)>>,
              <<"Events", Dct(<<
                  <<"Upload", Event("S3", Dct(<<
                      <<"Bucket", T("uploads")>> >>))>> >>)>> >>))>>,
          <<"Topic", Resource("AWS::SNS::Topic", Dct(<<
              <<"TopicName", T("topic")>> >>))>>,
          <<"JobsQueue", Resource("AWS::SQS::Queue", Dct(<<
              <<"QueueName", T("jobs")>> >>))>>,
          <<"UploadBucket", Resource("AWS::S3::Bucket", Dct(<<
              <<"BucketName", T("uploads")>> >>))>>,
          <<"Table", Resource("AWS::DynamoDB::Table", Dct(<<
              <<"TableName", T("table")>> >>))>>,
          <<"DeadLetterQueue", Resource("AWS::SQS::Queue", Dct(<<
              <<"QueueName", T("dead")>> >>))>> >>)>> >>)

(* functions only: without CodeUri, with an empty one, with one of several
   directories; one function has an event of an unknown type between two
   known ones, one has no Events *)
HandlersTemplate ==
    Dct(<<
      <<"Resources", Dct(<<
          <<"PlainFunction", Resource("AWS::Serverless::Function", Dct(<<
              <<"Handler", Str(<<"app", ".", "lambda_handler">>)>> >>))>>,
          <<"EmptyFunction", Resource("AWS::Serverless::Function", Dct(<<
              <<"CodeUri", Str(<<>>)>>,
              <<"Handler", Str(<<"app", ".", "lambda_handler">>)>>,
              <<"Events", Dct(<<
                  <<"Hello", Event("Api", Dct(<<
                      <<"Path", Str(<<"/", "hello">>)>>, <<"Method", T("get")>> >>))>>,
                  <<"Notice", Event("SNS", Dct(<< <<"Topic", T("topic")>> >>))>>,
                  <<"Nightly", Event("Schedule", Dct(<<
                      <<"Schedule", T("rate(1 day)")>> >>))>> >>)>> >>))>>,
          <<"NestedFunction", Resource("AWS::Serverless::Function", Dct(<<
              <<"CodeUri", Str(<<"src", "/", "app", "/">>)>>,
              <<"Handler", Str(<<"handlers", ".", "main">>)>>,
              <<"Events", Dct(<<
                  <<"Jobs", Event("SQS", Dct(<<
                      <<"Queue", T("jobs")>>, <<"BatchSize", Num(1)>> >>))>> >>)>> >>))>>
          >>)>> >>)

(* a variable that has the name of a parameter and refers to it, beside
   one with a plain value *)
StageTemplate ==
    Dct(<<
      <<"Parameters", Dct(<<
          <<"Stage", Param("String", T("dev"))>>,
          <<"Level", Param("String", T("INFO"))>> >>)>>,
      <<"Globals", Dct(<< <<"Function", Dct(<< <<"Environment", Dct(<<
          <<"Variables", Dct(<<
              <<"Stage", Fn("Ref", T("Stage"))>>,
              <<"Level", T("DEBUG")>> >>)>> >>)>> >>)>> >>)>>,
      <<"Resources", Dct(<<
          <<"HelloWorldFunction", Resource("AWS::Serverless::Function", Dct(<<
              <<"Handler", Str(<<"app", ".", "lambda_handler">>)>>,
              <<"Environment", Dct(<< <<"Variables", Dct(<<
                  <<"Retries", Num(3)>> >>)>> >>)>> >>))>> >>)>> >>)

TemplateFiles ==
    [example |-> ExampleTemplate, include |-> IncludeTemplate,
     select |-> SelectTemplate, inline |-> InlineTemplate,
     resources |-> ResourcesTemplate, handlers |-> HandlersTemplate,
     stage |-> StageTemplate]

Files == [x \in {"swagger.yml"} |-> Swagger]

(* the template_path arguments: four files that exist and one that does not *)
Paths == {"example", "include", "select", "inline", "unknown"}

(* the credentials a middleware is constructed with: access keys, a role
   with a web identity token, a role without one *)
CredentialSets ==
    {Credentials(None, None), Credentials(T("role"), T("token")),
     Credentials(T("role"), None)}

(* the seconds between a call of STS and the Expiration of its reply *)
Lifetimes == {0, 4}

Policy(effects) ==
    Dct(<< <<"principalId", T("user")>>,
           <<"policyDocument", Dct(<<
               <<"Version", T("2012-10-17")>>,
               <<"Statement", Lst([i \in DOMAIN effects |->
                   Dct(<< <<"Action", T("execute-api:Invoke")>>,
                          <<"Effect", T(effects[i])>> >>)])>> >>)>> >>)

(* what invoke of the Lambda client answers *)
Replies ==
    {Raise("ClientError"), NoJson, Json(None), Json(EmptyDict),
     Json(Dct(<< <<"errorMessage", T("timeout")>> >>)),
     Json(Policy(<<>>)), Json(Policy(<<"Allow">>)), Json(Policy(<<"Deny">>)),
     Json(Policy(<<"allow">>)), Json(Policy(<<"Allow", "Deny">>)),
     Json(Policy(<<"Deny", "Allow">>))}

(* the bodies of the messages a queue delivers, and of other requests *)
Endpoint(value) ==
    Json(Dct(<< <<"message", Dct(<< <<"attributes", Dct(<<
        <<"endpoint", value>> >>)>> >>)>> >>))

Bodies ==
    {NoJson, Json(None), Json(EmptyDict), Json(Lst(<<>>)),
     Json(Dct(<< <<"message", EmptyDict>> >>)),
     Json(Dct(<< <<"message", Dct(<< <<"attributes", EmptyDict>> >>)>> >>)),
     Endpoint(Num(1)), Endpoint(T("bar")), Endpoint(Str(<<>>)),
     Endpoint(Str(<<"/", "foo", "/", "bar">>)), Endpoint(Str(<<"foo", "/">>)),
     Endpoint(Str(<<"https:", "/", "/", "sqs", "/", "queue">>))}

Methods == {"GET", "POST", "PUT", "DELETE"}

RequestPaths == {Str(<<"/", "queue">>), Str(<<"/">>), Str(<<"/", "foo", "/", "bar">>)}

Requests ==
    {Request(m, b, p) : m \in Methods, b \in Bodies, p \in RequestPaths}

(* the keys and values a caller of the cache uses *)
CacheKeys == {"123", "456"}
CacheValues == {T("teste"), T("other")}

(* the template_path arguments of the runs that load a file twice *)
ReloadPaths == {"example", "stage", "select"}

(* the template_path arguments of the runs that read the resources *)
ResourcePaths == {"resources", "handlers"}

(* the tags the loader meets, without their "!": the short forms of the
   intrinsic functions, one of a function the evaluator does not know, and
   two written with the prefix *)
Tags ==
    {"Ref", "Condition", "GetAtt", "FindInMap", "Join", "Sub", "Select", "Split",
     "Base64", "ToJsonString", "Fn::Join", "Fn::GetAtt"}

(* the nodes the loader meets under such a tag *)
YamlNodes ==
    {ScalarNode(Str(<<"Resource", ".", "Arn">>)),
     ScalarNode(Str(<<"Resource", ".", "Outputs", ".", "Arn">>)),
     ScalarNode(T("Environment")),
     SequenceNode(<<ScalarNode(T("RegionMap")), ScalarNode(T("us-east-1")),
                    ScalarNode(T("HVM64"))>>),
     SequenceNode(<<ScalarNode(T("Resource")), ScalarNode(T("Arn"))>>),
     MappingNode(<< <<ScalarNode(T("Name")), ScalarNode(T("Foo"))>> >>),
     BaseNode}

(* the parameters arguments *)
ParameterSets ==
    {None,
     Dct(<< <<"Environment", T("development")>> >>),
     Dct(<< <<"Timeout", T("60")>>, <<"Undeclared", T("x")>> >>)}

(* os.environ: the variables that may be set, and their values *)
EnvValue == [AWS_Region |-> "us-east-1", NAME |-> "env-name", STAGE |-> "prod"]
EnvNames == DOMAIN EnvValue
Environs == {[n \in S |-> EnvValue[n]] : S \in SUBSET EnvNames}

-----------------------------------------------------------------------------
(* The mappings a caller builds and passes to IntrinsicFunctions.eval: each
   is a single-key mapping whose argument has the documented shape *)

RefNodes ==
    {Fn("Ref", T(name)) :
        name \in {"Environment", "Timeout", "AttributeName", "Handler", "Unknown"}}

GetAttNodes ==
    {Fn("Fn::GetAtt", Lst(<<T(id), attr>>)) :
        id \in {"ApiGateway", "ApiFunction"},
        attr \in {T("StageName"), T("attibute"), T("Tags"),
                  Fn("Ref", T("AttributeName")), Fn("Ref", T("Attribute"))}}
    \cup {Fn("Fn::GetAtt", Lst(<<T("DatabasesQueue"), T(attr)>>)) :
            attr \in {"VisibilityTimeout", "RedrivePolicy", "QueueName"}}
    \cup {Fn("Fn::GetAtt", Lst(<<T("PlainQueue"), T("QueueName")>>)),
          Fn("Fn::GetAtt", Lst(<<T("TestBucket"), T("BucketName")>>))}
    \cup {Fn("Fn::GetAtt", Str(<<"ApiGateway", ".", "StageName">>)),
          Fn("Fn::GetAtt", Str(<<"ApiGateway", ".", "Outputs", ".", "Url">>)),
          Fn("Fn::GetAtt", Str(<<"Unknown", ".", "Arn">>))}

JoinNodes ==
    {Fn("Fn::Join", Lst(<<T("."), Lst(<<T("fixtures"), T("handlers"), el>>)>>)) :
        el \in {T("lambda_handler"), Fn("Ref", T("Environment")),
                Fn("Ref", T("Unknown")), Fn("Ref", T("Timeout")),
                Fn("Fn::Select", Lst(<<Num(0), Lst(<<T("first"), T("second")>>)>>))}}
    \cup {Fn("Fn::Join", Lst(<<T("-"),
              Lst(<<Fn("Ref", T("Environment")), Fn("Ref", T("Unknown")),
                    T("tail")>>)>>)),
          Fn("Fn::Join", Lst(<<T("-"),
              Lst(<<Fn("Ref", T("Unknown")), Fn("Ref", T("Environment"))>>)>>))}

SelectNodes ==
    {Fn("Fn::Select", Lst(<<index, Lst(<<T("first"), el>>)>>)) :
        index \in {Num(0), Num(1), Num(2), T("1"), Fn("Ref", T("Unknown"))},
        el \in {T("second"), Fn("Ref", T("Environment")), Fn("Ref", T("Unknown"))}}
    \cup {Fn("Fn::Select", Lst(<<Num(n), values>>)) :
            n \in {1, 3},
            values \in {Fn("Fn::Split", Lst(<<T(","), Str(<<"a", ",", "b", ",", "c">>)>>)),
                        Fn("Ref", T("Unknown"))}}

SplitNodes ==
    {Fn("Fn::Split", Lst(<<T(","), source>>)) :
        source \in {Str(<<"a", ",", "b">>), T("abc"), Fn("Ref", T("Environment")),
                    Fn("Ref", T("Unknown"))}}

FindInMapNodes ==
    {Fn("Fn::FindInMap", Lst(<<T(map), top, T(second)>>)) :
        map \in {"LogLevels", "NoMap"},
        top \in {T("dev"), T("prod"), Fn("Ref", T("Environment")),
                 Fn("Ref", T("Unknown"))},
        second \in {"Level", "Missing"}}

SubStrings ==
    {<<"plain">>,
     <<"arn:", "${AWS::Region}", ":foo">>,
     <<"${STAGE}", "-", "${NAME}">>,
     <<"${NAME}", "-", "${OTHER}">>,
     <<"${NAME}", "/", "${NAME}">>}

(* the variable maps of Fn::Sub, as lists of one-entry mappings *)
SubVarLists ==
    {<< Dct(<< <<"NAME", T("my-name")>> >>) >>,
     << Dct(<< <<"NAME", T("my-name")>> >>), Dct(<< <<"OTHER", T("my-other")>> >>) >>,
     << Dct(<< <<"NAME", Fn("Ref", T("Environment"))>> >>) >>,
     << Dct(<< <<"NAME", Fn("Ref", T("Unknown"))>> >>) >>}

SubNodes ==
    {Fn("Fn::Sub", Str(s)) : s \in SubStrings}
    \cup {Fn("Fn::Sub", Lst(<<Str(s), Lst(vl)>>)) :
            s \in SubStrings \ {<<"plain">>}, vl \in SubVarLists}
    \cup {Fn("Fn::Sub", Lst(<<Str(<<"${NAME}", "-", "${OTHER}">>),
              Dct(<< <<"NAME", T("my-name")>>, <<"OTHER", T("my-other")>> >>)>>))}

OtherNodes ==
    {Fn("Fn::Base64", T("text")),
     Fn("Fn::ImportValue", T("exported")),
     Fn("Fn::If", Lst(<<T("IsProd"), T("yes"), T("no")>>)),
     Fn("Condition", T("IsProd")),
     Fn("Fn::Transform", Dct(<< <<"Name", T("AWS::Include")>> >>)),
     Fn("Fn::GetAZs", None)}

Nodes ==
    RefNodes \cup GetAttNodes \cup JoinNodes \cup SelectNodes \cup SplitNodes
    \cup FindInMapNodes \cup SubNodes \cup OtherNodes

-----------------------------------------------------------------------------
(* The state machine *)

NotSet == [k |-> "notset"]

(* number of evals of one mapping the model follows *)
MaxEvals == 2

(* the keys of the dict of objects a property stores *)
Ids(ids) == [k |-> "ids", ids |-> ids]

(* no property has been read, no object made *)
NoObjects ==
    /\ _functions = NotSet
    /\ _apis = NotSet
    /\ _queues = NotSet
    /\ _buckets = NotSet
    /\ _handler = EmptyDict
    /\ _events = EmptyDict
    /\ got = NotSet

(* no earlier load, no request and no call of the cache *)
NoServices ==
    /\ first = NotSet
    /\ clock = 0
    /\ _lambda_client = None
    /\ response = NotSet
    /\ redis = NotSet
    /\ credentials = NotSet

(* the constructor is not being called *)
NoLoader ==
    /\ tag_suffix = ""
    /\ yaml_node = NotSet
    /\ constructed = NotSet

Init ==
    /\ pc = "new"
    /\ template_path \in Paths
    /\ parameters \in ParameterSets
    /\ environ \in Environs
    /\ template = None
    /\ environment = NotSet
    /\ error = ""
    /\ node = NotSet
    /\ returned = NotSet
    /\ prevReturned = NotSet
    /\ evalCount = 0
    /\ last = NotSet
    /\ NoObjects
    /\ NoLoader
    /\ NoServices

Fail(e) == pc' = "failed" /\ error' = e

(* self.template = self.load(template_path) *)
Load ==
    /\ pc = "new"
    /\ IF template_path \in DOMAIN TemplateFiles
       THEN /\ template' = TemplateFiles[template_path]
            /\ pc' = "loaded"
            /\ error' = error
       ELSE /\ Fail("CFTemplateNotFound")
            /\ template' = template
    /\ UNCHANGED <<template_path, parameters, environment, environ, node,
                   returned, prevReturned, evalCount, last>>
    /\ UNCHANGED <<_functions, _apis, _queues, _buckets, objectVars, got, loaderVars, first, serviceVars>>

(* self.include_files() *)
IncludeFiles ==
    /\ pc = "loaded"
    /\ LET Returns(r) ==
               /\ template' = r.tpl
               /\ IF r.err = "" THEN pc' = "included" /\ error' = error ELSE Fail(r.err)
       IN Returns(include_files(template, Files))
    /\ _apis' = Ids(NodesOfType(template, ResourceType.API).ids)
    /\ UNCHANGED <<template_path, parameters, environment, environ, node,
                   returned, prevReturned, evalCount, last>>
    /\ UNCHANGED <<_functions, _queues, _buckets, objectVars, got, loaderVars, first, serviceVars>>

(* self.template = self.evaluate_and_replace(self.template): every call
   first stops in the debugger (import ipdb; ipdb.set_trace()); the run goes
   on when the debugger is told to continue and ends with an exception when
   ipdb is not installed or the debugger session is quit *)
EvaluateAndReplace ==
    /\ pc = "included"
    /\ \E debugger \in {"continue", "quit", "missing"} :
         LET Returns(r) ==
                 /\ template' = r.tpl
                 /\ IF r.err = "" THEN pc' = "evaluated" /\ error' = error
                    ELSE Fail(r.err)
         IN CASE debugger = "quit" -> Fail("BdbQuit") /\ template' = template
              [] debugger = "missing" ->
                    Fail("ModuleNotFoundError") /\ template' = template
              [] OTHER -> Returns(evaluate_and_replace(template, <<>>, 1, environ))
    /\ UNCHANGED <<template_path, parameters, environment, environ, node,
                   returned, prevReturned, evalCount, last>>
    /\ UNCHANGED <<_functions, _apis, _queues, _buckets, objectVars, got, loaderVars, first, serviceVars>>

(* self.set_parameters(parameters) *)
SetParameters ==
    /\ pc = "evaluated"
    /\ LET r == set_parameters(template, parameters)
       IN /\ template' = r.tpl
          /\ IF r.err = "" THEN pc' = "ready" /\ error' = error ELSE Fail(r.err)
    /\ UNCHANGED <<template_path, parameters, environment, environ, node,
                   returned, prevReturned, evalCount, last>>
    /\ UNCHANGED <<_functions, _apis, _queues, _buckets, objectVars, got, loaderVars, first, serviceVars>>

(* a caller builds a mapping to evaluate *)
BuildNode ==
    /\ pc = "ready"
    /\ node = NotSet
    /\ \E n \in Nodes : node' = n
    /\ returned' = NotSet
    /\ prevReturned' = NotSet
    /\ evalCount' = 0
    /\ last' = NotSet
    /\ UNCHANGED <<pc, template_path, parameters, template, environment, error,
                   environ>>
    /\ UNCHANGED <<_functions, _apis, _queues, _buckets, objectVars, got, loaderVars, first, serviceVars>>

(* IntrinsicFunctions.eval(node, self.template) *)
EvalNode ==
    /\ pc = "ready"
    /\ node # NotSet
    /\ evalCount < MaxEvals
    /\ LET Returns(r) ==
               /\ returned' = r.out
               /\ node' = r.node
               /\ template' = r.tpl
       IN Returns(Eval(node, template, environ))
    /\ prevReturned' = returned
    /\ evalCount' = evalCount + 1
    /\ last' = [node |-> node, tpl |-> template]
    /\ UNCHANGED <<pc, template_path, parameters, environment, error, environ>>
    /\ UNCHANGED <<_functions, _apis, _queues, _buckets, objectVars, got, loaderVars, first, serviceVars>>

(* the caller is done with the mapping and lets go of it; what the evals
   wrote into the template stays *)
DropNode ==
    /\ pc = "ready"
    /\ evalCount >= 1
    /\ node' = NotSet
    /\ returned' = NotSet
    /\ prevReturned' = NotSet
    /\ evalCount' = 0
    /\ last' = NotSet
    /\ UNCHANGED <<pc, template_path, parameters, template, environment, error,
                   environ>>
    /\ UNCHANGED <<_functions, _apis, _queues, _buckets, objectVars, got, loaderVars, first, serviceVars>>

(* os.environ[name] = value, or del os.environ[name], between the
   evaluations of two mappings *)
SetEnviron ==
    /\ pc = "ready"
    /\ node = NotSet
    /\ \E e \in Environs :
         /\ e # environ
         /\ Cardinality((DOMAIN e \ DOMAIN environ) \cup (DOMAIN environ \ DOMAIN e)) = 1
         /\ environ' = e
    /\ UNCHANGED <<pc, template_path, parameters, template, environment, error,
                   node, returned, prevReturned, evalCount, last>>
    /\ UNCHANGED <<_functions, _apis, _queues, _buckets, objectVars, got, loaderVars, first, serviceVars>>

(* self.functions stores its dict of Function objects, none of which has
   read a property yet *)
NewFunctions(ids) ==
    /\ _functions' = Ids(ids)
    /\ _handler' = Dct([i \in DOMAIN ids |-> <<ids[i], NotSet>>])
    /\ _events' = Dct([i \in DOMAIN ids |-> <<ids[i], NotSet>>])

(* the environment property: find_environment on the first read, which
   reads self.functions *)
ReadEnvironment ==
    /\ pc = "ready"
    /\ environment = NotSet
    /\ LET Returns(r) ==
               /\ template' = r.tpl
               /\ IF r.err = ""
                  THEN environment' = r.variables /\ error' = error
                  ELSE environment' = environment /\ error' = r.err
       IN Returns(find_environment(template))
    /\ IF _functions = NotSet
       THEN NewFunctions(NodesOfType(template, ResourceType.FUNCTION).ids)
       ELSE UNCHANGED <<_functions, objectVars>>
    /\ UNCHANGED <<pc, template_path, parameters, environ, node, returned,
                   prevReturned, evalCount, last>>
    /\ UNCHANGED <<_apis, _queues, _buckets, got, loaderVars, first, serviceVars>>

(* the mapping of the document a Resource object holds *)
ResourceOf(id) == Get(Get(template, "Resources"), id)

(* what a read of the property op of the object id returned, and whether it
   is what an earlier read had stored *)
Got(op, id, value, cached) == [op |-> op, id |-> id, value |-> value, cached |-> cached]

(* the functions property *)
ReadFunctions ==
    /\ pc = "ready"
    /\ IF _functions # NotSet
       THEN /\ got' = Got("functions", "", _functions, TRUE)
            /\ UNCHANGED <<_functions, objectVars, error>>
       ELSE LET Stored(r) ==
                    /\ NewFunctions(r.ids)
                    /\ error' = IF r.err = "" THEN error ELSE r.err
                    /\ got' = Got("functions", "",
                                  IF r.err = "" THEN Ids(r.ids) ELSE Raise(r.err), FALSE)
            IN Stored(NodesOfType(template, ResourceType.FUNCTION))
    /\ UNCHANGED <<pc, template_path, parameters, template, environment, environ,
                   node, returned, prevReturned, evalCount, last, _apis, _queues,
                   _buckets, loaderVars, first,
                   serviceVars>>

(* the apis property; include_files has read it during the construction *)
ReadApis ==
    /\ pc = "ready"
    /\ IF _apis # NotSet
       THEN /\ got' = Got("apis", "", _apis, TRUE)
            /\ UNCHANGED <<_apis, error>>
       ELSE LET Stored(r) ==
                    /\ _apis' = Ids(r.ids)
                    /\ error' = IF r.err = "" THEN error ELSE r.err
                    /\ got' = Got("apis", "",
                                  IF r.err = "" THEN Ids(r.ids) ELSE Raise(r.err), FALSE)
            IN Stored(NodesOfType(template, ResourceType.API))
    /\ UNCHANGED <<pc, template_path, parameters, template, environment, environ,
                   node, returned, prevReturned, evalCount, last, _functions,
                   _queues, _buckets, objectVars, loaderVars, first,
                   serviceVars>>

(* the queues property *)
ReadQueues ==
    /\ pc = "ready"
    /\ IF _queues # NotSet
       THEN /\ got' = Got("queues", "", _queues, TRUE)
            /\ UNCHANGED <<_queues, error>>
       ELSE LET Stored(r) ==
                    /\ _queues' = Ids(r.ids)
                    /\ error' = IF r.err = "" THEN error ELSE r.err
                    /\ got' = Got("queues", "",
                                  IF r.err = "" THEN Ids(r.ids) ELSE Raise(r.err), FALSE)
            IN Stored(NodesOfType(template, ResourceType.QUEUE))
    /\ UNCHANGED <<pc, template_path, parameters, template, environment, environ,
                   node, returned, prevReturned, evalCount, last, _functions,
                   _apis, _buckets, objectVars, loaderVars, first,
                   serviceVars>>

(* the buckets property *)
ReadBuckets ==
    /\ pc = "ready"
    /\ IF _buckets # NotSet
       THEN /\ got' = Got("buckets", "", _buckets, TRUE)
            /\ UNCHANGED <<_buckets, error>>
       ELSE LET Stored(r) ==
                    /\ _buckets' = Ids(r.ids)
                    /\ error' = IF r.err = "" THEN error ELSE r.err
                    /\ got' = Got("buckets", "",
                                  IF r.err = "" THEN Ids(r.ids) ELSE Raise(r.err), FALSE)
            IN Stored(NodesOfType(template, ResourceType.BUCKET))
    /\ UNCHANGED <<pc, template_path, parameters, template, environment, environ,
                   node, returned, prevReturned, evalCount, last, _functions,
                   _apis, _queues, objectVars, loaderVars, first,
                   serviceVars>>

(* the handler property of the Function object functions[id] *)
ReadHandler(id) ==
    /\ pc = "ready"
    /\ Has(_handler, id)
    /\ IF Get(_handler, id) # NotSet
       THEN /\ got' = Got("handler", id, Get(_handler, id), TRUE)
            /\ UNCHANGED <<_handler, error>>
       ELSE LET Stored(h) ==
                    /\ got' = Got("handler", id, h, FALSE)
                    /\ IF IsRaise(h)
                       THEN error' = h.e /\ UNCHANGED _handler
                       ELSE error' = error /\ _handler' = Put(_handler, id, h)
            IN Stored(handler(ResourceOf(id)))
    /\ UNCHANGED <<pc, template_path, parameters, template, environment, environ,
                   node, returned, prevReturned, evalCount, last, _functions,
                   _apis, _queues, _buckets, _events, loaderVars, first,
                   serviceVars>>

(* the events property of the Function object functions[id] *)
ReadEvents(id) ==
    /\ pc = "ready"
    /\ Has(_events, id)
    /\ IF Get(_events, id) # NotSet
       THEN /\ got' = Got("events", id, Get(_events, id), TRUE)
            /\ UNCHANGED <<_events, error>>
       ELSE LET Stored(r) ==
                    /\ _events' = Put(_events, id, r._events)
                    /\ error' = IF r.err = "" THEN error ELSE r.err
                    /\ got' = Got("events", id,
                                  IF r.err = "" THEN r._events ELSE Raise(r.err), FALSE)
            IN Stored(events(ResourceOf(id)))
    /\ UNCHANGED <<pc, template_path, parameters, template, environment, environ,
                   node, returned, prevReturned, evalCount, last, _functions,
                   _apis, _queues, _buckets, _handler, loaderVars, first,
                   serviceVars>>

(* yaml.load calls the constructor on a tagged node *)
Construct ==
    /\ yaml_node # NotSet
    /\ constructed = NotSet
    /\ constructed' = multi_constructor(tag_suffix, yaml_node)
    /\ UNCHANGED <<pc, template_path, parameters, template, environment, error,
                   environ, node, returned, prevReturned, evalCount, last,
                   _functions, _apis, _queues, _buckets, objectVars, got,
                   tag_suffix, yaml_node, first, serviceVars>>

Next ==
    \/ Load
    \/ IncludeFiles
    \/ EvaluateAndReplace
    \/ SetParameters
    \/ BuildNode
    \/ EvalNode
    \/ DropNode
    \/ SetEnviron
    \/ ReadEnvironment

Spec == Init /\ [][Next]_vars

(* the caller takes the environment of the template and constructs a new
   CloudformationTemplate of the same file with it as the parameters *)
Reload ==
    /\ pc = "ready"
    /\ environment # NotSet
    /\ first = NotSet
    /\ first' = environment
    /\ parameters' = environment
    /\ pc' = "new"
    /\ template' = None
    /\ environment' = NotSet
    /\ _functions' = NotSet
    /\ _apis' = NotSet
    /\ _handler' = EmptyDict
    /\ _events' = EmptyDict
    /\ UNCHANGED <<template_path, error, environ, node, returned, prevReturned,
                   evalCount, last, _queues, _buckets, got, loaderVars, serviceVars>>

(* The load of a file, and its load again with the environment of the first
   load as the parameters *)
InitReload ==
    /\ pc = "new"
    /\ template_path \in ReloadPaths
    /\ parameters \in ParameterSets
    /\ environ \in Environs
    /\ template = None
    /\ environment = NotSet
    /\ error = ""
    /\ node = NotSet
    /\ returned = NotSet
    /\ prevReturned = NotSet
    /\ evalCount = 0
    /\ last = NotSet
    /\ NoObjects
    /\ NoLoader
    /\ NoServices

NextReload ==
    \/ Load
    \/ IncludeFiles
    \/ EvaluateAndReplace
    \/ SetParameters
    \/ ReadEnvironment
    \/ Reload

SpecReload == InitReload /\ [][NextReload]_vars

(* The construction of a template and the reads of its resources *)
InitResources ==
    /\ pc = "new"
    /\ template_path \in ResourcePaths
    /\ parameters \in ParameterSets
    /\ environ = <<>>
    /\ template = None
    /\ environment = NotSet
    /\ error = ""
    /\ node = NotSet
    /\ returned = NotSet
    /\ prevReturned = NotSet
    /\ evalCount = 0
    /\ last = NotSet
    /\ NoObjects
    /\ NoLoader
    /\ NoServices

NextResources ==
    \/ Load
    \/ IncludeFiles
    \/ EvaluateAndReplace
    \/ SetParameters
    \/ ReadFunctions
    \/ ReadApis
    \/ ReadQueues
    \/ ReadBuckets
    \/ \E i \in DOMAIN _handler.kv : ReadHandler(_handler.kv[i][1])
    \/ \E i \in DOMAIN _events.kv : ReadEvents(_events.kv[i][1])

SpecResources == InitResources /\ [][NextResources]_vars

(* The loader's constructor on one tagged node *)
InitLoader ==
    /\ pc = "new"
    /\ template_path = "example"
    /\ parameters = None
    /\ environ = <<>>
    /\ template = None
    /\ environment = NotSet
    /\ error = ""
    /\ node = NotSet
    /\ returned = NotSet
    /\ prevReturned = NotSet
    /\ evalCount = 0
    /\ last = NotSet
    /\ NoObjects
    /\ tag_suffix \in Tags
    /\ yaml_node \in YamlNodes
    /\ constructed = NotSet
    /\ NoServices

NextLoader == Construct

SpecLoader == InitLoader /\ [][NextLoader]_vars

(* The authorizer middleware under requests and the passing of time *)
MaxClock == 5

(* no template is being constructed *)
NoTemplate ==
    /\ pc = "serving"
    /\ template_path = "example"
    /\ parameters = None
    /\ environ = <<>>
    /\ template = None
    /\ environment = NotSet
    /\ error = ""
    /\ node = NotSet
    /\ returned = NotSet
    /\ prevReturned = NotSet
    /\ evalCount = 0
    /\ last = NotSet
    /\ NoObjects
    /\ NoLoader

templateVars ==
    <<pc, template_path, parameters, template, environment, error, environ,
      node, returned, prevReturned, evalCount, last, _functions, _apis, _queues,
      _buckets, objectVars, loaderVars, first>>

(* a second passes *)
Tick ==
    /\ clock < MaxClock
    /\ clock' = clock + 1
    /\ UNCHANGED <<templateVars, got, _lambda_client, response, redis, credentials>>

(* a caller reads expired of the LambdaClient of the middleware *)
ReadExpired ==
    /\ _lambda_client # None
    /\ got' = Got("expired", "",
                  [k |-> "bool", b |-> expired(_lambda_client, clock),
                   now |-> clock, _expires_at |-> _lambda_client._expires_at],
                  FALSE)
    /\ UNCHANGED <<templateVars, serviceVars>>

(* LambdaAuthorizerMiddleware.dispatch of one request, with the replies of
   STS and of the Lambda *)
Dispatch ==
    \E lifetime \in Lifetimes, reply \in Replies :
        LET Then(r) ==
                /\ _lambda_client' = r.client._lambda_client
                /\ response' = [k |-> "authorizer", now |-> clock,
                                before |-> _lambda_client,
                                refreshed |-> r.client.refreshed,
                                client |-> r.client.out,
                                reply |-> r.reply,
                                result |-> authorize(r.payload)]
        IN /\ Then(invoke_lambda(_lambda_client, credentials, clock,
                                 clock + lifetime, reply))
           /\ UNCHANGED <<templateVars, got, clock, redis, credentials>>

InitAuthorizer ==
    /\ NoTemplate
    /\ first = NotSet
    /\ clock = 0
    /\ _lambda_client = None
    /\ response = NotSet
    /\ redis = NotSet
    /\ credentials \in CredentialSets

NextAuthorizer ==
    \/ Tick
    \/ ReadExpired
    \/ Dispatch

SpecAuthorizer == InitAuthorizer /\ [][NextAuthorizer]_vars

(* QueuePathRewriterMiddleware.dispatch of one request *)
Rewrite ==
    /\ \E request \in Requests :
           response' = [k |-> "rewriter", request |-> request,
                        result |-> rewrite(request)]
    /\ UNCHANGED <<templateVars, got, clock, _lambda_client, redis, credentials>>

(* The rewriter middleware under requests *)
InitRewriter ==
    /\ NoTemplate
    /\ NoServices

NextRewriter == Rewrite

SpecRewriter == InitRewriter /\ [][NextRewriter]_vars

(* The cache under calls and outages of the server *)
MaxRetry == 3
MaxFailures == 3

RedisCache(_connection, call) ==
    [k |-> "RedisCache", _connection |-> _connection, call |-> call]

(* the next commands of the connection raise ConnectionError *)
Outage ==
    /\ redis._connection # None
    /\ \E n \in 1..MaxFailures :
           redis' = RedisCache([redis._connection EXCEPT !.failures = n], NotSet)
    /\ UNCHANGED <<templateVars, got, clock, _lambda_client, response, credentials>>

(* cache.set(key, value) *)
CacheSet ==
    /\ \E key \in CacheKeys, value \in CacheValues :
           redis' = RedisCache(set(redis._connection, key, value), NotSet)
    /\ UNCHANGED <<templateVars, got, clock, _lambda_client, response, credentials>>

(* cache.get(key, retry); cache.get(key) is the call with retry = 1 *)
CacheGet ==
    /\ \E key \in CacheKeys, retry \in 0..MaxRetry :
           LET Then(r) ==
                   redis' = RedisCache(r._connection,
                                [k |-> "get", key |-> key, retry |-> retry,
                                 failures |-> connection(redis._connection).failures,
                                 gets |-> r.gets, reconnects |-> r.reconnects,
                                 out |-> r.out])
           IN Then(get(redis._connection, key, retry))
    /\ UNCHANGED <<templateVars, got, clock, _lambda_client, response, credentials>>

InitCache ==
    /\ NoTemplate
    /\ first = NotSet
    /\ clock = 0
    /\ _lambda_client = None
    /\ response = NotSet
    /\ credentials = NotSet
    /\ redis = RedisCache(None, NotSet)

NextCache ==
    \/ Outage
    \/ CacheSet
    \/ CacheGet

SpecCache == InitCache /\ [][NextCache]_vars

-----------------------------------------------------------------------------
(* What the claims speak about *)

(* the first eval of a mapping the caller has just built has returned *)
Evaluated(fun) ==
    pc = "ready" /\ evalCount = 1 /\ last.node.kv[1][1] = fun

Argument == last.node.kv[1][2]

(* the outcome of resolving one argument against the template as it was
   before the call: an intrinsic node by eval, anything else as it is *)
Resolve(x) == IF IsDict(x) THEN Eval(x, last.tpl, environ).out ELSE x

(* the template file as loaded, with the overrides as the Defaults *)
FileTemplate == TemplateFiles[template_path]
Declared(name) ==
    Has(FileTemplate, "Parameters") /\ Has(Get(FileTemplate, "Parameters"), name)
Overridden(name) == IsDict(parameters) /\ Has(parameters, name)

(* the environment variable a placeholder name is read from *)
VariableOf(name) == IF name \in pseudo_parameters THEN ReplaceColons(name) ELSE name

(* C1: eval never raises for a single-key mapping of the documented shape
   against a loaded template, and no resource accessor raises: an exception
   occurs only while the template is being loaded *)
C1_NeverRaises ==
    /\ evalCount >= 1 => ~IsRaise(returned)
    /\ pc = "ready" => error = ""

(* C2: eval of Fn::Join [d, values] is None when an intrinsic element of
   values resolves to None, and otherwise the elements, each intrinsic one
   replaced by its resolved value, joined by d in their order *)
JoinClaim(d, values) ==
    IF \E i \in DOMAIN values : IsDict(values[i]) /\ IsNone(Resolve(values[i]))
    THEN None
    ELSE Str(Concat([i \in DOMAIN values |->
                        IF i = 1 THEN Text(Resolve(values[i]))
                        ELSE d.s \o Text(Resolve(values[i]))]))

C2_JoinAllOrNothing ==
    Evaluated("Fn::Join") => returned = JoinClaim(Argument.l[1], Argument.l[2].l)

(* C3: after construction with an override v for a declared parameter p,
   eval of Ref p is v; eval of Ref of a name that is no key of Parameters
   (or when there is no Parameters section) is None *)
C3_RefReturnsOverride ==
    Evaluated("Ref") =>
        LET name == Flat(Argument.s)
        IN /\ (Declared(name) /\ Overridden(name)) => returned = Get(parameters, name)
           /\ ~Declared(name) => returned = None

C3_Witness ==
    /\ Evaluated("Ref")
    /\ Argument = T("Environment")
    /\ Declared("Environment")
    /\ Overridden("Environment")
    /\ returned = T("development")

(* C4: eval of Fn::Sub [s, varMap] replaces every placeholder that has an
   entry in varMap by the (resolved) value of the entry, for all entries,
   the entry winning over an environment variable of the same name, and the
   other placeholders from the environment; None if a varMap value resolves
   to None or a placeholder stays unresolved *)
Entries(varMap) ==
    IF IsDict(varMap) THEN varMap.kv
    ELSE [i \in DOMAIN varMap.l |-> varMap.l[i].kv[1]]

SubClaim(s, entries, env) ==
    LET InMap(name) == \E i \in DOMAIN entries : entries[i][1] = name
        ValueOf(name) ==
            Resolve(entries[CHOOSE i \in DOMAIN entries : entries[i][1] = name][2])
        Known(tok) ==
            ~IsPlaceholder(tok) \/ InMap(NameOf(tok))
                \/ VariableOf(NameOf(tok)) \in DOMAIN env
        New(tok) ==
            IF ~IsPlaceholder(tok) THEN <<tok>>
            ELSE IF InMap(NameOf(tok)) THEN Text(ValueOf(NameOf(tok)))
            ELSE <<env[VariableOf(NameOf(tok))]>>
    IN IF \E i \in DOMAIN entries : IsDict(entries[i][2]) /\ IsNone(Resolve(entries[i][2]))
       THEN None
       ELSE IF \E i \in DOMAIN s : ~Known(s[i]) THEN None
       ELSE Str(Concat([i \in DOMAIN s |-> New(s[i])]))

C4_SubVarMap ==
    (Evaluated("Fn::Sub") /\ IsList(Argument)) =>
        returned = SubClaim(Argument.l[1].s, Entries(Argument.l[2]), environ)

(* C5: eval of Fn::Sub s for a string s is s with every placeholder replaced
   by the value of its environment variable (the name with :: replaced by _
   for a pseudo parameter, the name itself otherwise), and None when a
   placeholder has no such variable *)
C5_SubString ==
    (Evaluated("Fn::Sub") /\ IsStr(Argument)) =>
        returned = SubClaim(Argument.s, <<>>, environ)

C5_Witness ==
    /\ Evaluated("Fn::Sub")
    /\ Argument = Str(<<"arn:", "${AWS::Region}", ":foo">>)
    /\ "AWS_Region" \in DOMAIN environ
    /\ returned = Str(<<"arn:", "us-east-1", ":foo">>)

(* C6: eval of Fn::Select [index, values] is the element at position index
   of the resolved values, and None, without raising, when index is out of
   range or when index, values or an element of values resolves to None *)
SelectClaim(index, values) ==
    LET i == Resolve(index)
        list == IF IsDict(values) THEN Resolve(values)
                ELSE Lst([j \in DOMAIN values.l |-> Resolve(values.l[j])])
    IN IF IsNone(i) \/ IsNone(list) THEN None
       ELSE IF \E j \in DOMAIN list.l : IsNone(list.l[j]) THEN None
       ELSE IF PyInt(i).n < 0 \/ PyInt(i).n >= Len(list.l) THEN None
       ELSE list.l[PyInt(i).n + 1]

C6_SelectInRangeOrNone ==
    Evaluated("Fn::Select") => returned = SelectClaim(Argument.l[1], Argument.l[2])

(* C7: eval of Fn::GetAtt [logicalId, attr] is Resources[logicalId]
   .Properties[attr], attr resolved first and the value resolved when it is
   an intrinsic node; None when the resource or the attribute is missing or
   one of the two resolutions is None *)
GetAttClaim(logicalId, attr) ==
    LET resources == Get(last.tpl, "Resources")
        name == Resolve(attr)
        properties == GetOr(At(resources, logicalId), "Properties", EmptyDict)
        value == At(properties, name)
    IN IF ~In(logicalId, resources) THEN None
       ELSE IF IsNone(name) THEN None
       ELSE IF ~In(name, properties) THEN None
       ELSE IF IsDict(value) /\ Len(value.kv) = 1 THEN Resolve(value)
       ELSE value

C7_GetAtt ==
    (Evaluated("Fn::GetAtt") /\ IsList(Argument)) =>
        returned = GetAttClaim(Argument.l[1], Argument.l[2])

(* C8: eval leaves the template and the evaluated mapping as they were *)
C8_EvalLeavesUnchanged ==
    (pc = "ready" /\ evalCount >= 1) => (template = last.tpl /\ node = last.node)

(* C9: two evals in a row of the same mapping against the same template,
   os.environ unchanged in between, have the same outcome *)
C9_SameOutcomeTwice ==
    (pc = "ready" /\ evalCount >= 2) => returned = prevReturned

(* C10: every value of the environment map is a fully resolved string: a
   variable whose value is an intrinsic node carries the stringified result
   of evaluating it, and one that resolves to None is absent *)
FileVariables ==
    LET funs == find_nodes(Get(FileTemplate, "Resources"), ResourceType.FUNCTION)
        globals == IF HasGlobals(FileTemplate) THEN GetPath(FileTemplate, GlobalsPath)
                   ELSE EmptyDict
    IN UpdateFromFunctions(globals, funs.nodes, 1).variables

C10_EnvironmentResolved ==
    (pc = "ready" /\ environment # NotSet) =>
        LET declared == set_parameters(FileTemplate, parameters).tpl
            Value(x) == IF IsDict(x) THEN Eval(x, declared, environ).out ELSE x
        IN /\ \A i \in DOMAIN environment.kv : IsStr(environment.kv[i][2])
           /\ \A i \in DOMAIN FileVariables.kv :
                LET key == FileVariables.kv[i][1]
                    value == Value(FileVariables.kv[i][2])
                IN IF IsNone(value) THEN ~Has(environment, key)
                   ELSE Has(environment, key) /\ Get(environment, key) = PyStr(value)

(* C11: in the environment map a variable defined in Globals and in a
   function carries the function's value, a variable with a resolvable value
   defined in one of the two places is present with that value, and a
   template with neither section gives the empty map *)
FileGlobals ==
    IF HasGlobals(FileTemplate) THEN GetPath(FileTemplate, GlobalsPath) ELSE EmptyDict

FileFunctions == find_nodes(Get(FileTemplate, "Resources"), ResourceType.FUNCTION).nodes

Local(i) == FunctionEnvironment(FileFunctions.kv[i][2])

DefinedLocally(key) == \E i \in DOMAIN FileFunctions.kv : Has(Local(i), key)

(* the value of the last function that defines key *)
LocalValue(key) ==
    LET i == CHOOSE j \in DOMAIN FileFunctions.kv :
                 /\ Has(Local(j), key)
                 /\ \A m \in DOMAIN FileFunctions.kv : Has(Local(m), key) => m <= j
    IN Get(Local(i), key)

Resolved(x) ==
    IF IsDict(x)
    THEN Eval(x, set_parameters(FileTemplate, parameters).tpl, environ).out
    ELSE x

C11_EnvironmentMerge ==
    (pc = "ready" /\ environment # NotSet) =>
        /\ \A i \in DOMAIN FileFunctions.kv : \A m \in DOMAIN Local(i).kv :
              LET key == Local(i).kv[m][1]
              IN ~IsNone(Resolved(LocalValue(key))) =>
                    /\ Has(environment, key)
                    /\ Get(environment, key) = PyStr(Resolved(LocalValue(key)))
        /\ \A m \in DOMAIN FileGlobals.kv :
              LET key == FileGlobals.kv[m][1]
              IN (~DefinedLocally(key) /\ ~IsNone(Resolved(FileGlobals.kv[m][2]))) =>
                    /\ Has(environment, key)
                    /\ Get(environment, key) = PyStr(Resolved(FileGlobals.kv[m][2]))
        /\ (FileGlobals = EmptyDict /\ \A i \in DOMAIN FileFunctions.kv : Local(i) = EmptyDict)
              => environment = EmptyDict

(* C12: reading the environment property stores nothing back: the template,
   with the Variables of Globals and of every function in it, is after the
   read what it was before *)
C12_EnvironmentNotStoredBack ==
    [][(environment = NotSet /\ environment' # NotSet) => template' = template]_vars

(* Frames: what a step may change in a document *)
(* a and b are mappings with the same keys, in the same order, and the same
   values except under the keys of the set may *)
SameExcept(a, b, may) ==
    /\ IsDict(a) /\ IsDict(b)
    /\ Keys(a) = Keys(b)
    /\ \A i \in DOMAIN a.kv : a.kv[i][1] \notin may => b.kv[i] = a.kv[i]

(* the Api resources that carry the include marker *)
HasMarker(resource) ==
    /\ Get(resource, "Type") = T(ResourceType.API)
    /\ Has(resource, "Properties")
    /\ Has(Get(resource, "Properties"), "DefinitionBody")
    /\ IsDict(Get(Get(resource, "Properties"), "DefinitionBody"))
    /\ Has(Get(Get(resource, "Properties"), "DefinitionBody"), "Fn::Transform")

Location(resource) ==
    Flat(GetPath(resource, <<"Properties", "DefinitionBody", "Fn::Transform",
                            "Parameters", "Location">>).s)

(* the Parameters of b are those of a but for the Default of the overridden
   parameters *)
ParametersFrame(a, b) ==
    Has(a, "Parameters") =>
        /\ Has(b, "Parameters")
        /\ Keys(Get(b, "Parameters")) = Keys(Get(a, "Parameters"))
        /\ \A i \in DOMAIN Get(a, "Parameters").kv :
              LET name == Get(a, "Parameters").kv[i][1]
              IN SameExcept(Get(Get(a, "Parameters"), name),
                            Get(Get(b, "Parameters"), name),
                            IF Overridden(name) THEN {"Default"} ELSE {})

(* the Resources of b are those of a but for the DefinitionBody of the Api
   resources that carry the marker *)
ResourcesFrame(a, b) ==
    /\ Has(b, "Resources")
    /\ Keys(Get(b, "Resources")) = Keys(Get(a, "Resources"))
    /\ \A i \in DOMAIN Get(a, "Resources").kv :
          LET id == Get(a, "Resources").kv[i][1]
              before == Get(Get(a, "Resources"), id)
              after == Get(Get(b, "Resources"), id)
          IN IF HasMarker(before)
             THEN /\ SameExcept(before, after, {"Properties"})
                  /\ SameExcept(Get(before, "Properties"), Get(after, "Properties"),
                                {"DefinitionBody"})
             ELSE after = before

(* C13: from the parsed file to the end of the construction the document
   changes only in the Default of overridden parameters and in the
   DefinitionBody of Api resources with an include marker; every other
   subtree, every intrinsic node with it, is as the loader parsed it *)
C13_ConstructionFrame ==
    [][(pc # "ready" /\ pc' = "ready") =>
          /\ SameExcept(FileTemplate, template', {"Parameters", "Resources"})
          /\ ParametersFrame(FileTemplate, template')
          /\ ResourcesFrame(FileTemplate, template')]_vars

(* C14: the construction applies the overrides before it evaluates any
   intrinsic function of the document: the step that evaluates the
   intrinsic functions starts from a document in which every declared
   parameter with an override has the override as its Default *)
OverridesInPlace ==
    Has(template, "Parameters") =>
        \A i \in DOMAIN Get(template, "Parameters").kv :
            LET name == Get(template, "Parameters").kv[i][1]
            IN Overridden(name) =>
                  GetOr(Get(Get(template, "Parameters"), name), "Default", None)
                      = Get(parameters, name)

C14_OverridesBeforeEvaluation ==
    [][(pc = "included" /\ pc' = "evaluated") => OverridesInPlace]_vars

(* C15: applying the overrides changes the Default of the declared
   parameters that have an override and nothing else: an undeclared name is
   ignored without an error and adds no entry, and a template without
   Parameters is left as it is *)
C15_SetParametersFrame ==
    [][(pc = "evaluated" /\ pc' # "evaluated") =>
          /\ pc' = "ready"
          /\ SameExcept(template, template', {"Parameters"})
          /\ ParametersFrame(template, template')
          /\ Has(template, "Parameters") =>
                \A i \in DOMAIN Get(template, "Parameters").kv :
                    LET name == Get(template, "Parameters").kv[i][1]
                    IN Overridden(name) =>
                          Get(Get(Get(template', "Parameters"), name), "Default")
                              = Get(parameters, name)]_vars

C15_Witness ==
    /\ pc = "ready"
    /\ Overridden("Undeclared")
    /\ Overridden("Timeout")
    /\ Has(template, "Parameters")
    /\ ~Has(Get(template, "Parameters"), "Undeclared")
    /\ Get(Get(Get(template, "Parameters"), "Timeout"), "Default") = T("60")
    /\ Get(Get(Get(template, "Parameters"), "Environment"), "Default") = T("dev")

(* C16: file inclusion succeeds and replaces the DefinitionBody of exactly
   the Api resources that carry the marker by the document of the file at
   Location; an Api with an inline DefinitionBody or with none keeps its
   properties *)
C16_IncludeFiles ==
    [][(pc = "loaded" /\ pc' # "loaded") =>
          /\ pc' = "included"
          /\ SameExcept(template, template', {"Resources"})
          /\ ResourcesFrame(template, template')
          /\ \A i \in DOMAIN Get(template, "Resources").kv :
                LET before == Get(template, "Resources").kv[i][2]
                    after == Get(template', "Resources").kv[i][2]
                IN HasMarker(before) =>
                      Get(Get(after, "Properties"), "DefinitionBody")
                          = Files[Location(before)]]_vars

(* the class the resource model gives an event of a type: the generic
   EventSource for a type that has no class of its own *)
EventClass(type) ==
    CASE type = T("Api") -> "ApiEvent"
      [] type = T("SQS") -> "SQSEvent"
      [] type = T("Schedule") -> "ScheduleEvent"
      [] OTHER -> "EventSource"

(* the Events a function declares *)
DeclaredEvents(id) ==
    GetOr(Get(ResourceOf(id), "Properties"), "Events", EmptyDict)

(* C17: reading the events of a function never raises and gives one object
   for every declared event: an ApiEvent, SQSEvent or ScheduleEvent for the
   types Api, SQS and Schedule, and a generic EventSource with the id of the
   event for every other type *)
C17_EventsOfAnyType ==
    (got # NotSet /\ got.op = "events") =>
        /\ ~IsRaise(got.value)
        /\ Keys(got.value) = Keys(DeclaredEvents(got.id))
        /\ \A i \in DOMAIN DeclaredEvents(got.id).kv :
              LET event == DeclaredEvents(got.id).kv[i]
              IN got.value.kv[i][2]
                     = Object(EventClass(Get(event[2], "Type")), event[1])

(* the logical ids of the document, those of one Type among them, and the
   ids a property has stored *)
ResourceIds ==
    IF IsDict(template) /\ Has(template, "Resources")
    THEN {Get(template, "Resources").kv[i][1] : i \in DOMAIN Get(template, "Resources").kv}
    ELSE {}

OfType(type) == {id \in ResourceIds : Get(ResourceOf(id), "Type") = T(type)}

Stored(cache) ==
    IF cache = NotSet THEN {} ELSE {cache.ids[i] : i \in DOMAIN cache.ids}

Caches ==
    << <<_functions, ResourceType.FUNCTION, "functions">>,
       <<_apis, ResourceType.API, "apis">>,
       <<_queues, ResourceType.QUEUE, "queues">>,
       <<_buckets, ResourceType.BUCKET, "buckets">> >>

(* C18: each of functions, apis, queues and buckets, once read, holds
   exactly the logical ids of the resources whose Type is its type string,
   each id once, and returns them on every read; no id is in two of the
   four, and a resource of any other Type is in none *)
C18_ResourcePartition ==
    /\ \A c \in DOMAIN Caches :
          Caches[c][1] # NotSet =>
              /\ Stored(Caches[c][1]) = OfType(Caches[c][2])
              /\ Cardinality(Stored(Caches[c][1])) = Len(Caches[c][1].ids)
    /\ \A c \in DOMAIN Caches :
          (got # NotSet /\ got.op = Caches[c][3]) =>
              /\ got.value = Caches[c][1]
              /\ Stored(got.value) = OfType(Caches[c][2])
    /\ \A c, d \in DOMAIN Caches :
          c # d => Stored(Caches[c][1]) \cap Stored(Caches[d][1]) = {}
    /\ \A id \in ResourceIds :
          (\A c \in DOMAIN Caches : Get(ResourceOf(id), "Type") # T(Caches[c][2]))
              => \A c \in DOMAIN Caches : id \notin Stored(Caches[c][1])

C18_Witness ==
    /\ pc = "ready"
    /\ template_path = "resources"
    /\ Stored(_functions) = {"HelloWorldFunction", "SlashFunction"}
    /\ Stored(_apis) = {"ApiGateway"}
    /\ Stored(_queues) = {"JobsQueue", "DeadLetterQueue"}
    /\ Stored(_buckets) = {"UploadBucket"}
    /\ got.op = "queues" /\ got.cached
    /\ {"Topic", "Table"} \subseteq ResourceIds

(* the handler path the resource model gives a function *)
HandlerPath(resource) ==
    LET properties == Get(resource, "Properties")
        Handler == Get(properties, "Handler")
    IN IF ~Has(properties, "CodeUri") \/ Get(properties, "CodeUri") = Str(<<>>)
       THEN Handler
       ELSE Str(SelectSeq(Get(properties, "CodeUri").s \o <<".">> \o Handler.s,
                          LAMBDA c : c # "/"))

(* C19: the handler of a function is its Handler when it has no CodeUri or
   an empty one, and otherwise CodeUri, ".", Handler with every "/" removed;
   every read, the first and the later ones, returns that text; two
   functions with the same Handler whose CodeUri differ in a "/" at the end
   have the same handler *)
C19_HandlerPath ==
    /\ \A i \in DOMAIN _handler.kv :
          _handler.kv[i][2] # NotSet =>
              _handler.kv[i][2] = HandlerPath(ResourceOf(_handler.kv[i][1]))
    /\ (got # NotSet /\ got.op = "handler") =>
          got.value = HandlerPath(ResourceOf(got.id))
    /\ \A i, j \in DOMAIN _handler.kv :
          LET a == Get(ResourceOf(_handler.kv[i][1]), "Properties")
              b == Get(ResourceOf(_handler.kv[j][1]), "Properties")
          IN (/\ _handler.kv[i][2] # NotSet /\ _handler.kv[j][2] # NotSet
              /\ Has(a, "CodeUri") /\ Has(b, "CodeUri")
              /\ Get(b, "CodeUri").s = Get(a, "CodeUri").s \o <<"/">>
              /\ Get(a, "Handler") = Get(b, "Handler"))
             => _handler.kv[i][2] = _handler.kv[j][2]

C19_Witness ==
    /\ got # NotSet
    /\ got.op = "handler" /\ got.id = "SlashFunction" /\ got.cached
    /\ got.value = Str(<<"hello_world", ".", "app", ".", "lambda_handler">>)
    /\ Get(_handler, "HelloWorldFunction") = got.value

(* the key of the canonical mapping of a tag *)
Canonical(tag) ==
    IF tag \in {"Ref", "Condition"} \/ \E x \in Tags : tag = "Fn::" \o x
    THEN tag
    ELSE "Fn::" \o tag

(* the scalar, list or mapping of a node, and the argument the canonical
   mapping of a tag has for it: GetAtt has its text split at the first "." *)
Constructed(n) ==
    CASE n.kind = "ScalarNode" -> n.value
      [] n.kind = "SequenceNode" -> Lst([i \in DOMAIN n.value.l |-> n.value.l[i].value])
      [] n.kind = "MappingNode" ->
            Dct([i \in DOMAIN n.value.l |->
                    <<Flat(n.value.l[i][1].value.s), n.value.l[i][2].value>>])

CanonicalArgument(tag, n) ==
    IF Canonical(tag) = "Fn::GetAtt" /\ n.kind = "ScalarNode"
    THEN Lst(SplitOnce(n.value.s, "."))
    ELSE Constructed(n)

(* C20: for every tag and every scalar, sequence or mapping node the
   constructor returns the mapping with the one key K, the tag itself for
   Ref and Condition and for a tag that is written with the prefix, the tag
   with the prefix "Fn::" otherwise, and with the node's constructed scalar,
   list or mapping as its value *)
C20_CanonicalMapping ==
    (/\ constructed # NotSet
     /\ yaml_node.kind \in {"ScalarNode", "SequenceNode", "MappingNode"}
     /\ ~(Canonical(tag_suffix) = "Fn::GetAtt" /\ yaml_node.kind = "MappingNode"))
        => constructed = Fn(Canonical(tag_suffix), CanonicalArgument(tag_suffix, yaml_node))

(* C21: under the tag GetAtt the loader splits a text "Resource.Attribute"
   at its first "." only, into the list of the part before it and the part
   after it, and gives for a sequence the list of the texts of its
   elements, in their order *)
C21_GetAttForms ==
    (constructed # NotSet /\ tag_suffix = "GetAtt") =>
        /\ (yaml_node.kind = "ScalarNode" /\ \E i \in DOMAIN yaml_node.value.s :
                                                yaml_node.value.s[i] = ".") =>
              LET text == yaml_node.value.s
                  dot == CHOOSE i \in DOMAIN text :
                             text[i] = "." /\ \A j \in 1..(i - 1) : text[j] # "."
              IN constructed
                     = Fn("Fn::GetAtt",
                          Lst(<<Str(SubSeq(text, 1, dot - 1)),
                                Str(SubSeq(text, dot + 1, Len(text)))>>))
        /\ yaml_node.kind = "SequenceNode" =>
              /\ IsDict(constructed)
              /\ constructed.kv[1][1] = "Fn::GetAtt"
              /\ Len(constructed.kv[1][2].l) = Len(yaml_node.value.l)
              /\ \A i \in DOMAIN yaml_node.value.l :
                    constructed.kv[1][2].l[i] = yaml_node.value.l[i].value

C21_Witness ==
    /\ tag_suffix = "GetAtt"
    /\ yaml_node = ScalarNode(Str(<<"Resource", ".", "Outputs", ".", "Arn">>))
    /\ constructed
           = Fn("Fn::GetAtt", Lst(<<T("Resource"), Str(<<"Outputs", ".", "Arn">>)>>))

(* C22: a node that is neither scalar, sequence nor mapping makes the
   constructor raise CFBadTag, and under the tag GetAtt a node that is
   neither scalar nor sequence makes it raise CFBadNode *)
C22_TypedErrors ==
    constructed # NotSet =>
        /\ (tag_suffix # "GetAtt" /\ yaml_node.kind = "Node")
              => constructed = Raise("CFBadTag")
        /\ (tag_suffix = "GetAtt" /\ yaml_node.kind \notin {"ScalarNode", "SequenceNode"})
              => constructed = Raise("CFBadNode")

(* C23: eval of a mapping whose key is none of the eight functions returns
   None and does not raise, whatever the argument is *)
C23_UnknownFunction ==
    (pc = "ready" /\ evalCount >= 1 /\ last.node.kv[1][1] \notin functions)
        => returned = None

C23_Witness ==
    /\ pc = "ready"
    /\ evalCount = 1
    /\ last.node = Fn("Fn::Transform", Dct(<< <<"Name", T("AWS::Include")>> >>))
    /\ returned = None

(* C30: eval of Fn::GetAtt with a text "logicalId.attr" has the outcome of
   eval of Fn::GetAtt with the list the loader makes of that text, and does
   not raise *)
C30_GetAttTextAsLoader ==
    (Evaluated("Fn::GetAtt") /\ IsStr(Argument)) =>
        /\ ~IsRaise(returned)
        /\ returned = Eval(Fn("Fn::GetAtt", construct_getatt(ScalarNode(Argument))),
                           last.tpl, environ).out

(* C24: the environment of a file loaded with the environment of an earlier
   load of the same file as the parameters is the environment of that
   earlier load *)
C24_StableUnderReapplication ==
    (first # NotSet /\ environment # NotSet) => environment = first

C24_Witness ==
    /\ template_path = "stage"
    /\ first # NotSet
    /\ environment = first
    /\ Has(first, "Stage")
    /\ Get(Get(Get(template, "Parameters"), "Stage"), "Default") = Get(first, "Stage")
    /\ Get(Get(Get(template, "Parameters"), "Stage"), "Default") # T("dev")

(* C25: expired is False while no expiry is recorded or the credentials
   expire further in the future than the threshold, and True once the
   remaining lifetime is at or below the threshold *)
C25_ExpiredWithinThreshold ==
    (got # NotSet /\ got.op = "expired") =>
        got.value.b = (/\ got.value._expires_at # None
                       /\ got.value._expires_at.n - got.value.now
                              <= expiration_threshold)

(* the client existed at the access and its credentials had, by the words of
   C25, expired *)
HadExpired ==
    /\ response.before # None
    /\ response.before._expires_at # None
    /\ response.before._expires_at.n - response.now <= expiration_threshold

(* C26: an access to client refreshes the existing LambdaClient exactly
   when it has expired, a client with valid credentials is not refreshed,
   and the client handed out never carries credentials past their expiry *)
C26_RefreshWhenExpired ==
    (response # NotSet /\ response.k = "authorizer") =>
        /\ response.refreshed <=> HadExpired
        /\ (response.client # None /\ response.client.expires_at # None) =>
               response.client.expires_at.n >= response.now

(* the Lambda answered a payload whose first policy statement has an Effect *)
HasEffect(reply) ==
    /\ reply.k = "json"
    /\ IsDict(reply.doc)
    /\ Has(reply.doc, "policyDocument")
    /\ Get(Get(reply.doc, "policyDocument"), "Statement").l # <<>>

EffectOf(reply) ==
    Get(Get(Get(reply.doc, "policyDocument"), "Statement").l[1], "Effect")

(* C27: dispatch forwards to call_next exactly when the Lambda returned a
   payload whose first policy statement has Effect "Allow"; any other Effect
   is answered 401 "Unauthorized", an invocation that raises 500 "Something
   went wrong. Try again", and neither of the two calls call_next *)
C27_ForwardIffAllow ==
    (response # NotSet /\ response.k = "authorizer") =>
        /\ response.result.forwarded <=>
               (HasEffect(response.reply) /\ EffectOf(response.reply) = T("Allow"))
        /\ (HasEffect(response.reply) /\ EffectOf(response.reply) # T("Allow")) =>
               response.result = Response(Message(<<"Unauthorized">>), 401)
        /\ IsRaise(response.reply) =>
               response.result
                   = Response(Message(<<"Something went wrong. Try again">>), 500)

C27_Witness ==
    /\ response # NotSet
    /\ response.k = "authorizer"
    /\ response.before # None
    /\ response.reply = Json(Policy(<<"Deny", "Allow">>))
    /\ response.result = Response(Message(<<"Unauthorized">>), 401)

(* the body is the JSON of an object that has message.attributes.endpoint *)
HasEndpoint(body) ==
    /\ body.k = "json"
    /\ IsDict(body.doc) /\ Has(body.doc, "message")
    /\ IsDict(Get(body.doc, "message"))
    /\ Has(Get(body.doc, "message"), "attributes")
    /\ IsDict(Get(Get(body.doc, "message"), "attributes"))
    /\ Has(Get(Get(body.doc, "message"), "attributes"), "endpoint")

(* C29: the rewriter passes a request that is not a POST on with its path
   unchanged; a POST goes on with the path "/" and the last segment of
   body.message.attributes.endpoint; a POST whose body is no JSON or lacks
   the field is answered {"message": "Invalid Request"}, call_next is not
   called and nothing is raised *)
C29_RewriteOrReject ==
    (response # NotSet /\ response.k = "rewriter") =>
        LET request == response.request
            result == response.result
        IN /\ request.method # "POST" => result = CallNext(request)
           /\ (request.method = "POST" /\ ~HasEndpoint(request.body)) =>
                  /\ result.raised = ""
                  /\ ~result.forwarded
                  /\ result.content = Message(<<"Invalid Request">>)
           /\ (request.method = "POST" /\ HasEndpoint(request.body)
                   /\ IsStr(GetPath(request.body.doc, <<"message", "attributes", "endpoint">>))) =>
                  /\ result.forwarded
                  /\ result.content.path.s[1] = "/"
                  /\ \A i \in 2..Len(result.content.path.s) :
                         result.content.path.s[i] # "/"
                  /\ LET endpoint == GetPath(request.body.doc,
                                             <<"message", "attributes", "endpoint">>).s
                         segment == Tail(result.content.path.s)
                     IN \/ endpoint = segment
                        \/ \E i \in DOMAIN endpoint :
                               /\ endpoint[i] = "/"
                               /\ SubSeq(endpoint, i + 1, Len(endpoint)) = segment

(* C28: when the get of the connection raises ConnectionError at every
   attempt, get(key) with the default retry makes exactly two attempts with
   exactly one reconnect between them and returns None without raising *)
C28_TwoAttemptsOneReconnect ==
    (/\ redis # NotSet
     /\ redis.call # NotSet
     /\ redis.call.retry = 1
     /\ redis.call.failures >= 2) =>
        /\ redis.call.gets = 2
        /\ redis.call.reconnects = 1
        /\ redis.call.out = None

====
